---------------------------- MODULE Spec2Model ----------------------------
(***************************************************************************)
(* GMAT-Automation: the report correlation pipeline (CContactReports /     *)
(* CLinkReports) and the batch runner (gmat_batcher), as state machines.   *)
(*                                                                         *)
(* The module holds several specifications over one set of variables:      *)
(*   SpecSelect   - the ordered row search of CContactReports.extend       *)
(*   SpecClassify - the field classifier loop of CContactReports.extend    *)
(*   Spec         - the control flow of extend() with its error handlers   *)
(*   SpecBatch    - gmat_batcher: worker pool, status queue, parent        *)
(* Each specification leaves the variables of the others at their idle     *)
(* values.                                                                 *)
(***************************************************************************)
EXTENDS Integers, Sequences, FiniteSets, TLC

VARIABLES
    extClass,   \* whose extend() runs: "contact" (CContactReports) or "link" (CLinkReports)
    extEnv,     \* the file system: [readable, writable] for the input report and the workbook
    extLines,   \* the rows lines_from_csv / csv.reader yield for the input report
    extLinks,   \* self.links: area of interest -> the link workbook registered for the key
    extPc,      \* position in extend()
    extRow,     \* the row the loop over the lines is at
    extKidx,    \* the key the loop over startstop.items() is at
    extWidx,    \* the window the loop over contacts is at
    extWriterow,\* writerow: the sheet row written last
    extOut,     \* the cells written to the output workbook, as rows [aoi, row, kind, t]
    extExc,     \* the exception being raised, "none" if none
    extLog,     \* the handlers that logged an error
    extWarn,    \* the keys skipped with a warning
    extResult,  \* "running", then "returned" or "propagated"
    lnk,        \* the local variables of CLinkReports.extend
    bRev,       \* the revision of gmat_batcher.py that runs: "old" or "new"
    bStart,     \* how multiprocessing starts the pool's processes: "fork" or "spawn"
    bBeh,       \* per script, what its GMAT subprocess does: "exits", "hangs", "nopopen"
    nrunp,      \* ncpus - rsrv_cpus: the size the pool is asked for
    bPc,        \* per script, where run_gmat is
    bProc,      \* per script, its subprocess: "unbound", "running", "exited", "killed"
    bTimedOut,  \* per script, whether communicate(timeout=cpto) raised TimeoutExpired
    task_queue, \* the managed queue: messages [t, kind] not taken yet
    bPut,       \* every message a worker has put on the queue
    pPc,        \* where the main program is
    pSeen,      \* the results the loop over imap_unordered has received
    pLog,       \* what the main program has logged, in order
    clsStem,    \* the stem of the visibility report's file name
    cls,        \* the classifier's local variables (ClsInit)
    clsPc,      \* "read" while fields are classified, "raised" after an exception
    g,          \* history of the classification: sections, tags, commits
    selTable,   \* a1gregs: column 0 of the link sheet, heading cell included
    selWin,     \* the visibility window <<start, stop>>
    selPc,      \* position in the selection: "left", "right", "rows", "done"
    selRes,     \* [exc, rowstart, rowstop, rows]: what the selection produced
    lbBatch,    \* the link reports of the batch file, in order
    lbIdx,      \* the report do_batch() is at
    lbLinks,    \* lr_inst.links: key -> the report registered for it, 0 if none
    crLinks,    \* cr_inst.links, as setlinks() left it
    lbPc,       \* "links" while link reports are processed, then "set"
    csvfile,    \* the file lines_from_csv is given: [readable, lines]
    csvPc,      \* "call" before lines_from_csv runs, "done" after it returned
    csvRet,     \* what lines_from_csv returned: [none, data, log]
    bfLines,    \* the master batch file: its lines, terminator included
    bfExists,   \* the paths that exist in the file system
    bfIdx,      \* the line the loop "for filename in f" is at
    gmat_args,  \* the jobs set up so far: the gmat_arg of each [gmat_arg, task_queue]
    msIn,       \* what modelspec() reads from the workbook: [spectable, epochlist, inclist]
    msPc,       \* "call" before modelspec() runs, "done" after it
    msRet       \* how modelspec() ended: [exc, cases]

selVars == <<selTable, selWin, selPc, selRes>>

clsVars == <<clsStem, cls, clsPc, g>>

extVars == <<extClass, extEnv, extLines, extLinks, extPc, extRow, extKidx, extWidx,
             extWriterow, extOut, extExc, extLog, extWarn, extResult, lnk>>

batVars == <<bRev, bStart, bBeh, nrunp, bPc, bProc, bTimedOut, task_queue, bPut,
             pPc, pSeen, pLog>>

lbVars == <<lbBatch, lbIdx, lbLinks, crLinks, lbPc>>

csvVars == <<csvfile, csvPc, csvRet>>

jobVars == <<bfLines, bfExists, bfIdx, gmat_args>>

msVars == <<msIn, msPc, msRet>>

fnVars == <<csvVars, jobVars, msVars>>

vars == <<selVars, clsVars, extVars, batVars, lbVars, fnVars>>

(***************************************************************************)
(* Bounds of the model.                                                    *)
(***************************************************************************)
MaxTime == 4        \* timestamps are 0..MaxTime
MaxLinkRows == 3    \* data rows of a link table
MaxAoi == 2         \* areas of interest 1..MaxAoi of a correlated report
MaxClsAoi == 1      \* areas of interest of a classified report
MaxTargets == 1     \* 'Target:' markers per classified report
MaxWin == 2         \* windows read from one classified report
MaxTasks == 2       \* scripts in the batch file
MaxPool == 2        \* cores beyond the reserved ones
MaxBatch == 2       \* link reports in a batch file

Times == 0..MaxTime

(***************************************************************************)
(* Cells of the link sheet as xlwings returns them: a datetime (dt = TRUE, *)
(* v its value) or a string (dt = FALSE).                                  *)
(***************************************************************************)
HeadingCell == [dt |-> FALSE, v |-> 0]
TimeCell(t) == [dt |-> TRUE, v |-> t]

\* Python's "<" between two cell values: a str and a datetime do not compare.
PyComparable(a, b) == a.dt = b.dt

NoIndex == 0 - 1

RECURSIVE BisectLeftFrom(_, _, _, _)
BisectLeftFrom(a, x, lo, hi) ==
    IF lo < hi
    THEN LET mid == (lo + hi) \div 2
         IN  IF ~PyComparable(a[mid + 1], x)
             THEN [exc |-> "TypeError", idx |-> NoIndex]
             ELSE IF a[mid + 1].v < x.v
                  THEN BisectLeftFrom(a, x, mid + 1, hi)
                  ELSE BisectLeftFrom(a, x, lo, mid)
    ELSE [exc |-> "none", idx |-> lo]

\* bisect.bisect_left(a, x): zero-based insertion point left of equal items.
bisect_left(a, x) == BisectLeftFrom(a, x, 0, Len(a))

RECURSIVE BisectRightFrom(_, _, _, _)
BisectRightFrom(a, x, lo, hi) ==
    IF lo < hi
    THEN LET mid == (lo + hi) \div 2
         IN  IF ~PyComparable(x, a[mid + 1])
             THEN [exc |-> "TypeError", idx |-> NoIndex]
             ELSE IF x.v < a[mid + 1].v
                  THEN BisectRightFrom(a, x, lo, mid)
                  ELSE BisectRightFrom(a, x, mid + 1, hi)
    ELSE [exc |-> "none", idx |-> lo]

\* bisect.bisect_right(a, x): zero-based insertion point right of equal items.
bisect_right(a, x) == BisectRightFrom(a, x, 0, Len(a))

\* range(rowstart, rowstop) as a sequence of zero-based row numbers.
RowRange(rowstart, rowstop) ==
    IF rowstop > rowstart
    THEN [i \in 1..(rowstop - rowstart) |-> rowstart + i - 1]
    ELSE <<>>

(***************************************************************************)
(* Text: a string is a sequence of one-character strings, so that the      *)
(* regular-expression searches of the classifier can be computed.          *)
(***************************************************************************)
Digits == {"0", "1", "2", "3", "4", "5", "6", "7", "8", "9"}

\* re.IGNORECASE on the letters the names use.
LowerCase(c) ==
    CASE c = "S" -> "s"
      [] c = "A" -> "a"
      [] c = "T" -> "t"
      [] c = "L" -> "l"
      [] c = "E" -> "e"
      [] c = "O" -> "o"
      [] c = "G" -> "g"
      [] c = "R" -> "r"
      [] c = "X" -> "x"
      [] OTHER -> c

\* regesat = re.compile('[sS]at'); the 1-based index of the first match, 0 if none.
IsSatAt(s, i) ==
    /\ i + 2 <= Len(s)
    /\ s[i] \in {"s", "S"}
    /\ s[i + 1] = "a"
    /\ s[i + 2] = "t"

RegeSatSearch(s) ==
    IF \E i \in 1..Len(s) : IsSatAt(s, i)
    THEN CHOOSE i \in 1..Len(s) : IsSatAt(s, i) /\ \A j \in 1..(i - 1) : ~IsSatAt(s, j)
    ELSE 0

\* re.compile(pat, re.IGNORECASE).search(s) for a pattern of plain characters.
SearchIgnoreCase(pat, s) ==
    \E i \in 1..(Len(s) - Len(pat) + 1) :
        \A j \in 1..Len(pat) : LowerCase(pat[j]) = LowerCase(s[i + j - 1])

\* The names a report can carry after 'Target:' and the stems of the file names.
SatNames ==
    << <<"S", "a", "t", "1">>,
       <<"S", "a", "t", "2">>,
       <<"S", "a", "t", "1", "2">>,
       <<"L", "E", "O", "s", "a", "t">>,
       <<"S", "a", "t", "X">>,
       <<"G", "E", "O">> >>

FileStems ==
    << <<"R", "_", "S", "a", "t", "1">>,
       <<"R", "_", "L", "E", "O", "s", "a", "t", "1">>,
       <<"R", "_", "G", "E", "O">> >>

(***************************************************************************)
(* The cross-check of the 'Target:' field against the file name: the       *)
(* exception it raises, "none" when it passes.                             *)
(***************************************************************************)
TargetCheck(stem, key1) ==
    LET m == RegeSatSearch(stem)
    IN  IF m = 0
        THEN "ValueError"                 \* No Satellite number in filename
        ELSE LET satinfn == SubSeq(stem, m, Len(stem))
                 k == RegeSatSearch(key1)
             IN  IF k = 0
                 THEN "AttributeError"    \* match is None: match.span()
                 ELSE IF k + 2 = Len(key1)
                      THEN IF SearchIgnoreCase(satinfn, Append(key1, "1"))
                           THEN "none" ELSE "ValueError"
                      ELSE IF key1[k + 3] \in Digits
                           THEN IF SearchIgnoreCase(satinfn, key1)
                                THEN "none" ELSE "ValueError"
                           ELSE "TypeError"   \* keycheck is None: search(None)

(***************************************************************************)
(* The classifier of CContactReports.extend.  A field of the report is     *)
(* [k, v]: k says which of the patterns the text matches ("target",        *)
(* "observer", "utc", "duration", "time", "numevents", "other"), v is the  *)
(* value it carries: the index of the name after 'Target:', the area of    *)
(* interest after 'Observer:' (0: no area token), the timestamp, or the    *)
(* text of any other field.                                                *)
(***************************************************************************)
Unbound == 0 - 1                  \* a local variable not assigned yet
NoKey == [sat |-> 0, aoi |-> 0]   \* key not assigned yet

\* key = key1 + '@' + key2
MakeKey(key1, key2) == [sat |-> key1, aoi |-> key2]

\* The local variables of extend() that the classifier loop reads and writes.
ClsInit ==
    [ key1 |-> 0, key |-> NoKey, colutc |-> <<>>, times |-> <<>>,
      starttime |-> Unbound, stoptime |-> Unbound, contact |-> FALSE,
      startstop |-> <<>>, sheets |-> {}, aoi |-> {},
      exc |-> "none", ev |-> "none" ]

Raise(st, e) == [st EXCEPT !.exc = e, !.ev = "raise"]

\* dict.update({key: value}): a key already present keeps its place.
DictUpdate(d, key, value) ==
    IF \E i \in 1..Len(d) : d[i].key = key
    THEN [i \in 1..Len(d) |-> IF d[i].key = key THEN [key |-> key, contacts |-> value] ELSE d[i]]
    ELSE Append(d, [key |-> key, contacts |-> value])

DictHas(d, key) == \E i \in 1..Len(d) : d[i].key = key

DictGet(d, key) == d[CHOOSE i \in 1..Len(d) : d[i].key = key].contacts

\* A commit that stored the accumulator itself: times.clear() would empty it.
CommitAlias(times) == <<>>

\* cp.deepcopy({key: times}): the value stored is independent of the accumulator.
CommitCopy(times) == times

\* 'Target:' field: key1 is taken from the field and checked against the file name.
OnTarget(st, stem, f) ==
    LET e == TargetCheck(stem, SatNames[f.v])
    IN  IF e # "none" THEN Raise(st, e) ELSE [st EXCEPT !.key1 = f.v, !.ev = "target"]

\* An 'Observer:' test that adds the sheet before it looks for the area token.
OnObserverSheetFirst(st, stem, f) ==
    IF f.v = 0
    THEN Raise([st EXCEPT !.sheets = @ \cup {f.v}], "ValueError")
    ELSE IF f.v \in st.sheets
         THEN Raise(st, "DuplicateWorksheetName")
         ELSE IF st.key1 = 0
              THEN Raise([st EXCEPT !.sheets = @ \cup {f.v}], "UnboundLocalError")
              ELSE [st EXCEPT !.sheets = @ \cup {f.v},
                              !.key = MakeKey(st.key1, f.v),
                              !.aoi = @ \cup {MakeKey(st.key1, f.v)},
                              !.ev = "observer"]

\* 'Observer:' field: a new sheet, a new compound key.
OnObserver(st, stem, f) ==
    IF f.v = 0
    THEN Raise(st, "ValueError")              \* no key2 in the observer string
    ELSE IF f.v \in st.sheets
         THEN Raise(st, "DuplicateWorksheetName")
         ELSE IF st.key1 = 0
              THEN Raise([st EXCEPT !.sheets = @ \cup {f.v}], "UnboundLocalError")
              ELSE [st EXCEPT !.sheets = @ \cup {f.v},
                              !.key = MakeKey(st.key1, f.v),
                              !.aoi = @ \cup {MakeKey(st.key1, f.v)},
                              !.ev = "observer"]

\* A field matching the time pattern: start or stop by its column.
OnTime(st, col, f) ==
    IF Len(st.colutc) = 0
    THEN Raise(st, "IndexError")
    ELSE IF col = st.colutc[1]
         THEN [st EXCEPT !.starttime = f.v, !.ev = "start"]
         ELSE IF Len(st.colutc) < 2
              THEN Raise(st, "IndexError")
              ELSE IF col = st.colutc[2]
                   THEN [st EXCEPT !.stoptime = f.v, !.contact = TRUE, !.ev = "stop"]
                   ELSE Raise(st, "ValueError")   \* Unexpected time field

\* 'Number of events': commit the accumulated windows under the current key.
OnNumEvents(st) ==
    IF Len(st.times) > 0
    THEN IF st.key = NoKey
         THEN Raise(st, "UnboundLocalError")
         ELSE [st EXCEPT !.startstop = DictUpdate(@, st.key, CommitCopy(st.times)),
                         !.times = <<>>,
                         !.ev = "commit"]
    ELSE st

\* The tests that follow the time test: the duration kludge, then 'Number of events'.
AfterTime(st, col, f) ==
    IF st.contact /\ Len(st.colutc) < 3
    THEN Raise(st, "IndexError")
    ELSE IF st.contact /\ col = st.colutc[3]
         THEN IF st.starttime = Unbound
              THEN Raise([st EXCEPT !.contact = FALSE], "UnboundLocalError")
              ELSE [st EXCEPT !.contact = FALSE,
                              !.times = Append(@, <<st.starttime, st.stoptime, f.v>>),
                              !.ev = "append"]
         ELSE IF f.k = "numevents"
              THEN OnNumEvents(st)
              ELSE st

\* The tests that follow the observer test: 'UTC', 'Duration', the time pattern.
AfterObserver(st, col, f) ==
    IF f.k = "utc" /\ Len(st.colutc) < 2
    THEN [st EXCEPT !.colutc = Append(@, col), !.ev = "utc"]
    ELSE IF f.k = "duration" /\ Len(st.colutc) = 2
         THEN [st EXCEPT !.colutc = Append(@, col), !.ev = "duration"]
         ELSE IF f.k = "time"
              THEN OnTime(st, col, f)
              ELSE AfterTime(st, col, f)

\* The body of the loop over the fields of a row, for one non-empty field.
ClassifyField(st, stem, col, f) ==
    LET s0 == [st EXCEPT !.ev = "none"]
        t == IF f.k = "target" THEN OnTarget(s0, stem, f) ELSE s0
    IN  IF t.exc # "none"
        THEN t
        ELSE IF f.k = "observer"
             THEN OnObserver(t, stem, f)
             ELSE AfterObserver(t, col, f)

(***************************************************************************)
(* SpecClassify: the classifier reads an arbitrary report, one row at a    *)
(* time.  g records what was read where: cur is the key of the section    *)
(* being read (set by its 'Observer:' marker, none after a 'Target:'       *)
(* marker), tags gives for each accumulated triple the section in which    *)
(* it was appended, since holds the triples appended since the last        *)
(* commit, startstop the commits made from them, utc the columns of the    *)
(* first two fields containing 'UTC' read since the last 'Observer:'       *)
(* marker, durEarly whether a 'Duration' column was ever bound before two  *)
(* such fields had been read in its section, mixed whether a triple was    *)
(* ever appended whose start or stop time was not read in the row of its   *)
(* duration.                                                               *)
(***************************************************************************)
GInit ==
    [ cur |-> NoKey, tags |-> <<>>,
      since |-> <<>>, startstop |-> <<>>, nwin |-> 0, ntarget |-> 0,
      last |-> [key |-> NoKey, tags |-> <<>>], just |-> FALSE,
      utc |-> <<>>, durEarly |-> FALSE, timeOdd |-> FALSE,
      fresh |-> {}, mixed |-> FALSE ]

\* What a field matching the timestamp pattern is expected to do, in column
\* col, taking the classifier from st to nx: fill the start slot in the bound
\* start column, the stop slot in the bound stop column, and anywhere else
\* fail with ValueError, the accumulator left as it was.
TimeFieldAsExpected(st, nx, col, f) ==
    IF Len(st.colutc) >= 1 /\ col = st.colutc[1]
    THEN nx.exc = "none" /\ nx.starttime = f.v /\ nx.times = st.times
    ELSE IF Len(st.colutc) >= 2 /\ col = st.colutc[2]
         THEN nx.exc = "none" /\ nx.stoptime = f.v /\ nx.times = st.times
         ELSE nx.exc = "ValueError" /\ nx.times = st.times /\ nx.startstop = st.startstop

\* The history after the field f of column col, which took the classifier
\* from st to nx.
GNext(h, st, nx, col, f) ==
    LET ev == nx.ev
        cur == IF ev = "observer" THEN nx.key
               ELSE IF ev = "target" THEN NoKey ELSE h.cur
    IN  [ cur |-> cur,
          tags |-> IF ev = "append" THEN Append(h.tags, cur)
                   ELSE IF ev = "commit" THEN <<>> ELSE h.tags,
          since |-> IF ev = "append" THEN Append(h.since, nx.times[Len(nx.times)])
                    ELSE IF ev = "commit" THEN <<>> ELSE h.since,
          startstop |-> IF ev = "commit" THEN DictUpdate(h.startstop, st.key, h.since)
                        ELSE h.startstop,
          nwin |-> IF ev = "append" THEN h.nwin + 1 ELSE h.nwin,
          ntarget |-> IF ev = "target" THEN h.ntarget + 1 ELSE h.ntarget,
          last |-> IF ev = "commit" THEN [key |-> st.key, tags |-> h.tags] ELSE h.last,
          just |-> IF ev = "none" THEN h.just ELSE ev = "commit",
          utc |-> IF ev = "observer" THEN <<>>
                  ELSE IF f.k = "utc" /\ nx.exc = "none" /\ Len(h.utc) < 2
                       THEN Append(h.utc, col) ELSE h.utc,
          durEarly |-> h.durEarly \/ (ev = "duration" /\ Len(h.utc) < 2),
          timeOdd |-> h.timeOdd \/ (f.k = "time" /\ ~TimeFieldAsExpected(st, nx, col, f)),
          fresh |-> IF ev \in {"start", "stop"} THEN h.fresh \cup {ev} ELSE h.fresh,
          mixed |-> h.mixed \/ (ev = "append" /\ h.fresh # {"start", "stop"}) ]

EmptyField == [k |-> "empty", v |-> 0]
Field(k, v) == [k |-> k, v |-> v]

\* for col, data in enumerate(rlist): the fields of one row from column col on
\* (col is zero-based); an empty field is skipped, an exception ends the loop.
RECURSIVE ClassifyRowFrom(_, _, _, _, _)
ClassifyRowFrom(st, h, stem, rlist, col) ==
    IF col >= Len(rlist) \/ st.exc # "none"
    THEN [st |-> st, h |-> h]
    ELSE LET f == rlist[col + 1]
             nx == IF f.k = "empty" THEN [st EXCEPT !.ev = "none"]
                   ELSE ClassifyField(st, stem, col, f)
         IN  ClassifyRowFrom(nx, GNext(h, st, nx, col, f), stem, rlist, col + 1)

\* One row through the classifier; fresh holds the slots filled from this row.
ClassifyRow(st, h, stem, rlist) ==
    LET r == ClassifyRowFrom(st, [h EXCEPT !.fresh = {}], stem, rlist, 0)
    IN  [st |-> r.st, h |-> [r.h EXCEPT !.fresh = {}]]

\* The rows a visibility report is made of, and some damaged ones.
ClsWindows == {<<0, 1>>, <<1, 0>>}

ClsRows ==
    {<<Field("target", n)>> : n \in 1..Len(SatNames)}
        \cup {<<Field("observer", a)>> : a \in 0..MaxClsAoi}
        \cup {<<Field("utc", 0), Field("utc", 0), Field("duration", 0)>>,
              <<Field("other", 0), Field("utc", 0), Field("utc", 0), Field("duration", 0)>>}
        \cup {<<Field("time", w[1]), Field("time", w[2]), Field("other", 0)>> :
                  w \in ClsWindows}
        \cup {<<Field("other", 0), Field("time", 0), Field("time", 1), Field("other", 0)>>}
        \cup {<<Field("numevents", 0)>>, <<Field("other", 0)>>}

ClsIdle ==
    /\ clsStem = <<>>
    /\ cls = ClsInit
    /\ clsPc = "idle"
    /\ g = GInit

ClsSpecInit ==
    /\ clsStem = FileStems[1]
    /\ cls = ClsInit
    /\ clsPc = "read"
    /\ g = GInit

\* for row, rlist in lines.items(): the classifier reads the next row
ClsReadRow ==
    /\ clsPc = "read"
    /\ \E rlist \in ClsRows :
        LET r == ClassifyRow(cls, g, clsStem, rlist)
        IN  /\ rlist[1].k = "target" => g.ntarget < MaxTargets
            /\ r.h.nwin <= MaxWin
            /\ cls' = [r.st EXCEPT !.ev = "none"]
            /\ g' = r.h
            /\ clsPc' = IF r.st.exc = "none" THEN "read" ELSE "raised"
    /\ UNCHANGED <<clsStem, selVars, lbVars, fnVars, extVars, batVars>>

ClsNext == ClsReadRow


(***************************************************************************)
(* Link tables: lreprng.columns[0].value is the heading cell of row 0      *)
(* followed by the time column, which GMAT writes in increasing order.     *)
(***************************************************************************)
StrictlyIncreasing(s) == \A i \in 1..(Len(s) - 1) : s[i] < s[i + 1]

TimeColumns ==
    {s \in UNION {[1..n -> Times] : n \in 1..MaxLinkRows} : StrictlyIncreasing(s)}

A1Gregs(tc) == <<HeadingCell>> \o [i \in 1..Len(tc) |-> TimeCell(tc[i])]

Windows == {w \in Times \X Times : w[1] <= w[2]}

SelIdleRes == [exc |-> "none", rowstart |-> NoIndex, rowstop |-> NoIndex, rows |-> <<>>]

SelIdle ==
    /\ selTable = <<>>
    /\ selWin = <<0, 0>>
    /\ selPc = "idle"
    /\ selRes = SelIdleRes

SelInit ==
    /\ selTable \in {A1Gregs(tc) : tc \in TimeColumns}
    /\ selWin \in Windows
    /\ selPc = "left"
    /\ selRes = SelIdleRes

\* rowstart = bi.bisect_left(a1gregs, starttime)
SelBisectLeft ==
    /\ selPc = "left"
    /\ LET r == bisect_left(selTable, TimeCell(selWin[1]))
       IN  /\ selRes' = [selRes EXCEPT !.exc = r.exc, !.rowstart = r.idx]
           /\ selPc' = IF r.exc = "none" THEN "right" ELSE "done"
    /\ UNCHANGED <<selTable, selWin, clsVars, extVars, batVars, lbVars, fnVars>>

\* rowstop = bi.bisect_right(a1gregs, stoptime)
SelBisectRight ==
    /\ selPc = "right"
    /\ LET r == bisect_right(selTable, TimeCell(selWin[2]))
       IN  /\ selRes' = [selRes EXCEPT !.exc = r.exc, !.rowstop = r.idx]
           /\ selPc' = IF r.exc = "none" THEN "rows" ELSE "done"
    /\ UNCHANGED <<selTable, selWin, clsVars, extVars, batVars, lbVars, fnVars>>

\* for row in range(rowstart, rowstop): data = lreprng.rows[row].value
SelRows ==
    /\ selPc = "rows"
    /\ selRes' = [selRes EXCEPT !.rows = RowRange(selRes.rowstart, selRes.rowstop)]
    /\ selPc' = "done"
    /\ UNCHANGED <<selTable, selWin, clsVars, extVars, batVars, lbVars, fnVars>>

SelNext == SelBisectLeft \/ SelBisectRight \/ SelRows


(***************************************************************************)
(* extend(): the exceptions and the except clauses that end the try block  *)
(* of CContactReports.extend and of CLinkReports.extend.                   *)
(***************************************************************************)
OSErrors == {"OSError", "FileNotFoundError"}

\* except <clause>: does it catch an exception of class e
Catches(clause, e) ==
    \/ clause = "Exception"
    \/ clause = e
    \/ clause = "OSError" /\ e \in OSErrors

ContactHandlers == <<"OSError", "ValueError", "IndexError", "com_error", "Exception">>

LinkHandlers == <<"OSError", "ValueError", "Exception">>

\* The first clause that catches e, "uncaught" if none does.
HandlerOf(handlers, e) ==
    LET hit == {i \in 1..Len(handlers) : Catches(handlers[i], e)}
    IN  IF hit = {}
        THEN "uncaught"
        ELSE handlers[CHOOSE i \in hit : \A j \in hit : i <= j]

\* rr.decimate_spaces(rpt): the path of the normalized copy, None when the
\* input cannot be opened (the error is logged, nothing is raised).
decimate_spaces(readable) == IF readable THEN "nospc" ELSE "None"

(***************************************************************************)
(* extend(): the link workbooks.  self.links gives for a key the workbook  *)
(* CLinkReports wrote for it; what opening it with xlwings yields is its   *)
(* kind: "ok", "open_com_error" (books.open raises com_error), "no_report" *)
(* (no sheet 'Report': com_error), "range_com_error" (reading the used     *)
(* range raises com_error), "bad_time" (the first cell of the time column  *)
(* is text, not a datetime).  "absent": the key is not in self.links.      *)
(***************************************************************************)
LinkKinds == {"ok", "open_com_error", "no_report", "range_com_error", "bad_time"}

LinkTimeColumn == [i \in 1..MaxLinkRows |-> i]

\* a1gregs = lreprng.columns[0].value for a workbook of the kind
LinkTable(kind) ==
    IF kind = "bad_time"
    THEN [A1Gregs(LinkTimeColumn) EXCEPT ![2] = HeadingCell]
    ELSE A1Gregs(LinkTimeColumn)

\* The loop body on a key that self.links does not hold, had KeyError no handler.
KeyStepRaise(kind) ==
    CASE kind = "absent" -> [act |-> "raise", exc |-> "KeyError"]
      [] kind \in {"open_com_error", "no_report"} -> [act |-> "continue", exc |-> "none"]
      [] kind = "range_com_error" -> [act |-> "raise", exc |-> "com_error"]
      [] OTHER -> [act |-> "open", exc |-> "none"]

\* The loop body up to the reading of the link sheet: what it does for a key
\* whose link workbook is of the kind.
KeyStep(kind) ==
    CASE kind = "absent" -> [act |-> "continue", exc |-> "none"]
      [] kind \in {"open_com_error", "no_report"} -> [act |-> "continue", exc |-> "none"]
      [] kind = "range_com_error" -> [act |-> "raise", exc |-> "com_error"]
      [] OTHER -> [act |-> "open", exc |-> "none"]

\* A row written to the sheet of the area: its index, what it is ("heading",
\* "start", "data", "stop"), the timestamp of its column 0 and, on a 'Stop'
\* row, the duration of its column 3.
OutRow(aoi, row, kind, t) ==
    [aoi |-> aoi, row |-> row, kind |-> kind, t |-> t, d |-> 0, forms |-> <<>>]

\* Formulas that take the zero-based row for the row of the sheet.
formulasRowAbove(writerow) ==
    << {<<"E", writerow>>, <<"F", writerow>>, <<"G", writerow>>},
       {<<"F", writerow>>, <<"E", writerow>>},
       {<<"G", writerow>>, <<"E", writerow>>, <<"F", writerow>>} >>

\* The formulas appended to a link row written at the zero-based row
\* writerow, slant range, azimuth and elevation, each as the cells it
\* refers to: formrow = writerow + 1, Excel rows are 1-based.
formulas(writerow) ==
    LET formrow == writerow + 1
    IN  << {<<"E", formrow>>, <<"F", formrow>>, <<"G", formrow>>},
           {<<"F", formrow>>, <<"E", formrow>>},
           {<<"G", formrow>>, <<"E", formrow>>, <<"F", formrow>>} >>

StopRow(aoi, row, times) == [OutRow(aoi, row, "stop", times[2]) EXCEPT !.d = times[3]]

\* for row in range(rowstart, rowstop): the link rows written from rows[i] on;
\* writerow is the sheet row written last.
RECURSIVE WriteRowsFrom(_, _, _, _, _)
WriteRowsFrom(a, rows, i, aoi, writerow) ==
    IF i > Len(rows)
    THEN [exc |-> "none", out |-> <<>>, writerow |-> writerow]
    ELSE LET cell == a[rows[i] + 1]
         IN  IF ~cell.dt
             THEN [exc |-> "AttributeError", out |-> <<>>, writerow |-> writerow + 1]
             ELSE LET rest == WriteRowsFrom(a, rows, i + 1, aoi, writerow + 1)
                  IN  [exc |-> rest.exc,
                       out |-> <<[OutRow(aoi, writerow + 1, "data", cell.v)
                                     EXCEPT !.forms = formulas(writerow + 1)]>> \o rest.out,
                       writerow |-> rest.writerow]

\* A window body that writes the 'Stop' marker without moving to a new row.
WriteWindowStopInPlace(a, aoi, writerow0, times) ==
    LET writerow == writerow0 + 1
        l == bisect_left(a, TimeCell(times[1]))
        start == <<OutRow(aoi, writerow, "start", times[1])>>
        r == bisect_right(a, TimeCell(times[2]))
        d == WriteRowsFrom(a, RowRange(l.idx, r.idx), 1, aoi, writerow)
    IN  IF l.exc # "none"
        THEN [exc |-> l.exc, out |-> <<>>, writerow |-> writerow]
        ELSE IF r.exc # "none"
             THEN [exc |-> r.exc, out |-> start, writerow |-> writerow]
             ELSE IF d.exc # "none"
                  THEN [exc |-> d.exc, out |-> start \o d.out, writerow |-> d.writerow]
                  ELSE [exc |-> "none",
                        out |-> start \o d.out \o <<StopRow(aoi, d.writerow, times)>>,
                        writerow |-> d.writerow]

\* The body of "for times in contacts" for one window <<start, stop, duration>>.
WriteWindow(a, aoi, writerow0, times) ==
    LET writerow == writerow0 + 1
        l == bisect_left(a, TimeCell(times[1]))
        start == <<OutRow(aoi, writerow, "start", times[1])>>
        r == bisect_right(a, TimeCell(times[2]))
        d == WriteRowsFrom(a, RowRange(l.idx, r.idx), 1, aoi, writerow)
    IN  IF l.exc # "none"
        THEN [exc |-> l.exc, out |-> <<>>, writerow |-> writerow]
        ELSE IF r.exc # "none"
             THEN [exc |-> r.exc, out |-> start, writerow |-> writerow]
             ELSE IF d.exc # "none"
                  THEN [exc |-> d.exc, out |-> start \o d.out, writerow |-> d.writerow]
                  ELSE [exc |-> "none",
                        out |-> start \o d.out \o <<StopRow(aoi, d.writerow + 1, times)>>,
                        writerow |-> d.writerow + 1]

(***************************************************************************)
(* CLinkReports.extend: the loop over the rows of the link report.  A      *)
(* field is [k, v]; k says what the text is: "gregorsat" ('LEOsat' and a   *)
(* digit v, then 'A1Gregorian'), "gregor" ('A1Gregorian' without the       *)
(* satellite), "aoihead" (a heading ending in ' X' for the area v), "head" *)
(* (another heading), "time" (a GMAT timestamp), "badtime" (text that      *)
(* holds a timestamp and more), "decimal" (a number with v fraction        *)
(* digits), "integer" (a number without a dot), "text".                    *)
(***************************************************************************)
LnkInit ==
    [ key1 |-> 0, links |-> {}, fracsz |-> Unbound, exc |-> "none",
      lengs |-> <<>>,       \* lengs: the widest width seen per column
      width |-> <<>>,       \* per column, the width set_column() set last
      fmt |-> "none",       \* the number format of the decimal written last
      wide |-> <<>>,        \* per column, the width of the widest data value written
      fmtOdd |-> FALSE ]    \* a decimal was given another format than its own text asks for

\* len(data) for the texts of the model's fields
FieldLen(f) ==
    CASE f.k = "time" -> 24
      [] f.k = "badtime" -> 30
      [] f.k = "decimal" -> f.v + 2
      [] f.k = "integer" -> 1
      [] f.k = "gregorsat" -> 19
      [] f.k = "gregor" -> 11
      [] OTHER -> 4

\* rr.heading_row(data): the width its column is given, sized to the heading.
heading_row(f) == FieldLen(f)

\* A list of per-column values with the value of column col (zero-based) set to x.
SetAt(w, col, x) ==
    [i \in 1..(IF Len(w) > col THEN Len(w) ELSE col + 1) |->
        IF i = col + 1 THEN x ELSE IF i <= Len(w) THEN w[i] ELSE 0]

\* sheet.set_column(col, col, leng)
SetColumn(st, col, leng) == [st EXCEPT !.width = SetAt(@, col, leng)]

\* sheet.write(row, col, data, ...) of a data cell that needs the width leng
WriteCell(st, col, leng) ==
    [st EXCEPT !.wide = SetAt(@, col, IF Len(@) > col /\ @[col + 1] > leng
                                      THEN @[col + 1] ELSE leng)]

\* The format the fraction digits of a decimal ask for.
FormatOf(fracsz) == IF fracsz < 4 THEN "2pl" ELSE "4pl"

\* The fraction digits of the field's own text: none without a dot.
OwnFraction(f) == IF f.k = "decimal" THEN f.v ELSE 0

\* if row == 0: the heading row
LinkHeading(st, col, f) ==
    LET leng == heading_row(f)
        s0 == SetColumn([st EXCEPT !.lengs = Append(@, leng)], col, leng)
        a == IF col # 0
             THEN s0
             ELSE IF f.k = "gregorsat"
                  THEN [s0 EXCEPT !.key1 = f.v]
                  ELSE IF f.k = "gregor"
                       THEN s0
                       ELSE [s0 EXCEPT !.exc = "TypeError"]   \* reduced.name()
    IN  IF a.exc # "none"
        THEN a
        ELSE IF f.k = "aoihead"
             THEN IF a.key1 = 0
                  THEN [a EXCEPT !.exc = "UnboundLocalError"]
                  ELSE [a EXCEPT !.links = @ \cup {MakeKey(a.key1, f.v)}]
             ELSE a

\* The decimal branch of a data field: fracsz is assigned only when the text
\* holds a dot, and tested in either case.
LinkDecimal(st, col, leng, f) ==
    LET a == IF f.k = "decimal" THEN [st EXCEPT !.fracsz = f.v] ELSE st
    IN  IF a.fracsz = Unbound
        THEN [a EXCEPT !.exc = "UnboundLocalError"]
        ELSE [WriteCell(a, col, leng) EXCEPT
                  !.fmt = FormatOf(a.fracsz),
                  !.fmtOdd = @ \/ FormatOf(a.fracsz) # FormatOf(OwnFraction(f))]

\* else: all subsequent rows
LinkData(st, col, f) ==
    LET leng == FieldLen(f) + 1
        s0 == IF Len(st.lengs) < col + 1
              THEN [st EXCEPT !.lengs = Append(@, leng)]
              ELSE IF leng > st.lengs[col + 1]
                   THEN [st EXCEPT !.lengs[col + 1] = leng]
                   ELSE st
        s1 == SetColumn(s0, col, leng)
    IN  CASE f.k = "time" -> WriteCell(s1, col, leng)
          [] f.k = "badtime" -> [s1 EXCEPT !.exc = "ValueError"]      \* strptime
          [] f.k \in {"decimal", "integer"} -> LinkDecimal(s1, col, leng, f)
          [] OTHER -> WriteCell(s1, col, leng)

\* for col, data in enumerate(line): the fields of row number row from col on
RECURSIVE LinkRowFrom(_, _, _, _)
LinkRowFrom(st, row, line, col) ==
    IF col >= Len(line) \/ st.exc # "none"
    THEN st
    ELSE LET f == line[col + 1]
             nx == IF f.k = "empty"
                   THEN st
                   ELSE IF row = 0 THEN LinkHeading(st, col, f) ELSE LinkData(st, col, f)
         IN  LinkRowFrom(nx, row, line, col + 1)

LinkRow(st, row, line) == LinkRowFrom(st, row, line, 0)

(***************************************************************************)
(* Spec: one call of extend(), of CContactReports or of CLinkReports, on   *)
(* one input file.                                                         *)
(***************************************************************************)
\* The windows of the visibility reports: one starting at the first timestamp
\* of the link table, one starting after it.
ExtWindows == {<<1, 2>>, <<2, MaxLinkRows>>}

ExtSections == [aoi : 0..MaxAoi, wins : {<<>>} \cup {<<w>> : w \in ExtWindows}]

\* A data row: start, stop and the text of the duration, which differs from
\* window to window.
DataRow(w) == <<Field("time", w[1]), Field("time", w[2]), Field("other", w[1])>>

\* One section of a visibility report, closed by 'Number of events'.
SectionRows(s) ==
    << <<Field("observer", s.aoi)>>,
       <<Field("utc", 0), Field("utc", 0), Field("duration", 0)>> >>
        \o [i \in 1..Len(s.wins) |-> DataRow(s.wins[i])]
        \o << <<Field("numevents", 0)>> >>

\* A last section with windows that the report ends in, without its
\* 'Number of events' row.
OpenSectionRows(s) == SubSeq(SectionRows(s), 1, Len(SectionRows(s)) - 1)

\* A section whose last data row has lost its start field.
DamagedSectionRows(s) ==
    OpenSectionRows(s)
        \o << <<EmptyField, Field("time", s.wins[1][2]), Field("other", s.wins[1][1])>>,
              <<Field("numevents", 0)>> >>

\* The visibility reports for the file stem: a 'Target:' row and one or two
\* sections, the last one closed or not, or one section with a damaged row.
ContactReports(stem) ==
    UNION {IF TargetCheck(stem, SatNames[n]) = "none"
           THEN LET Last == {SectionRows(s) : s \in ExtSections}
                              \cup {OpenSectionRows(s) : s \in {x \in ExtSections : x.wins # <<>>}}
                IN  {<< <<Field("target", n)>> >> \o l : l \in Last}
                      \cup {<< <<Field("target", n)>> >> \o DamagedSectionRows(s) :
                                s \in {x \in ExtSections : x.wins # <<>>}}
                      \cup {<< <<Field("target", n)>> >> \o SectionRows(s) \o l :
                                s \in ExtSections, l \in Last}
           ELSE {<< <<Field("target", n)>>, <<Field("observer", 1)>> >>}
           : n \in 1..Len(SatNames)}

\* The areas of interest the report names.
AoisOf(lines) ==
    {lines[i][1].v : i \in {j \in 1..Len(lines) : lines[j][1].k = "observer"}}

LinkHeadingRows ==
    {<<Field("gregorsat", 1), Field("aoihead", a)>> : a \in 1..MaxAoi}
        \cup {<<Field("gregor", 0), Field("aoihead", 1)>>,
              <<Field("head", 0), Field("aoihead", 1)>>,
              <<Field("gregorsat", 1), Field("head", 0)>>}

LinkDataRows ==
    {<<Field("time", 1), Field("decimal", 2)>>,
     <<Field("time", 1), Field("decimal", 6)>>,
     <<Field("time", 1), Field("integer", 0)>>,
     <<Field("badtime", 0), Field("decimal", 6)>>,
     <<Field("text", 0), EmptyField>>}

\* The link reports: a heading row and up to two data rows.
LinkReportsIn ==
    {<<h>> : h \in LinkHeadingRows}
        \cup {<<h, d>> : h \in LinkHeadingRows, d \in LinkDataRows}
        \cup {<<h, d, e>> : h \in LinkHeadingRows, d \in LinkDataRows, e \in LinkDataRows}

NoLinks == [a \in 1..MaxAoi |-> "absent"]

\* What extend() finds and leaves around it: whether the input can be read
\* and the workbook written, whether the space-decimated and the
\* comma-reduced intermediate file are on disk, and the Excel session of
\* xw.App(): "none", "open" or "closed".
EnvClean ==
    [readable |-> FALSE, writable |-> TRUE, nospc |-> FALSE, reduced |-> FALSE, app |-> "none",
     wb |-> "none", closes |-> 0, late |-> FALSE]

\* wb = xwrt.Workbook(xlfile, ...)
WbCreate(env) == [env EXCEPT !.wb = "open"]

\* sheet.write(...), sheet.set_column(...): late records a write to a
\* workbook on which close() has been called
WbWrite(env) == [env EXCEPT !.late = @ \/ env.closes > 0]

\* A close() placed at the end of the try block: skipped when the block raised.
WbCloseUnlessRaised(env, exc, ok) ==
    IF exc = "none"
    THEN [env EXCEPT !.writable = ok, !.closes = @ + 1,
                     !.wb = IF ok /\ env.wb = "open" THEN "closed" ELSE @]
    ELSE [env EXCEPT !.writable = ok]

\* finally: wb.close(), whatever exception exc the try block raised; ok
\* tells whether the file could be written, the workbook stays open if not
WbClose(env, exc, ok) ==
    [env EXCEPT !.writable = ok, !.closes = @ + 1,
                !.wb = IF ok /\ env.wb = "open" THEN "closed" ELSE @]

\* rr.decimate_spaces(rpt); rr.decimate_commas(nospc): both files are written
Staged(env) == [env EXCEPT !.nospc = TRUE, !.reduced = TRUE]

\* if nospc.exists(): nospc.unlink()
UnlinkNospc(env) == [env EXCEPT !.nospc = FALSE]

\* if reduced.exists(): reduced.unlink()
UnlinkReduced(env) == [env EXCEPT !.reduced = FALSE]

\* with xw.App() as excel: the session is acquired
AppEnter(env) == [env EXCEPT !.app = "open"]

\* A block that is left by an exception without releasing the session.
AppKeptOnRaise(env) == env

\* The with block is left by an exception: the session is released.
AppExitOnRaise(env) == [env EXCEPT !.app = IF @ = "open" THEN "closed" ELSE @]

\* The with block is left at its end: the session is released.
AppExit(env) == [env EXCEPT !.app = "closed"]

extInputs == <<extClass, extLines, extLinks>>

ExtLocalsInit ==
    /\ extPc = "start"
    /\ extRow = 1
    /\ extKidx = 1
    /\ extWidx = 1
    /\ extWriterow = 0
    /\ extOut = <<>>
    /\ extExc = "none"
    /\ extLog = {}
    /\ extWarn = {}
    /\ extResult = "running"
    /\ lnk = LnkInit
    /\ cls = ClsInit
    /\ g = GInit
    /\ clsPc = "idle"

ExtIdle ==
    /\ extClass = "none"
    /\ extEnv = [EnvClean EXCEPT !.readable = TRUE]
    /\ extLines = <<>>
    /\ extLinks = NoLinks
    /\ extPc = "idle"
    /\ extRow = 1
    /\ extKidx = 1
    /\ extWidx = 1
    /\ extWriterow = 0
    /\ extOut = <<>>
    /\ extExc = "none"
    /\ extLog = {}
    /\ extWarn = {}
    /\ extResult = "running"
    /\ lnk = LnkInit

\* CContactReports.extend(sightfile): an unreadable file has no rows.
ExtContactInit ==
    /\ extClass = "contact"
    /\ clsStem \in {FileStems[i] : i \in 1..Len(FileStems)}
    /\ extEnv \in {[EnvClean EXCEPT !.readable = b] : b \in BOOLEAN}
    /\ extLines \in IF extEnv.readable THEN ContactReports(clsStem) \cup {<<>>} ELSE {<<>>}
    /\ extLinks \in {l \in [1..MaxAoi -> LinkKinds \cup {"absent"}] :
                       \A a \in 1..MaxAoi : l[a] # "absent" => a \in AoisOf(extLines)}
    /\ ExtLocalsInit

\* CLinkReports.extend(rpt)
ExtLinkInit ==
    /\ extClass = "link"
    /\ clsStem = <<>>
    /\ extEnv \in {[EnvClean EXCEPT !.readable = b] : b \in BOOLEAN}
    /\ extLines \in IF extEnv.readable THEN LinkReportsIn \cup {<<>>} ELSE {<<>>}
    /\ extLinks = NoLinks
    /\ ExtLocalsInit

ExtInit == ExtContactInit \/ ExtLinkInit

\* CContactReports.extend up to the loop over the lines: the workbook is
\* created, the report normalized and read.
ExtStart ==
    /\ extPc = "start"
    /\ extClass = "contact"
    /\ IF decimate_spaces(extEnv.readable) = "None"
       THEN /\ extExc' = "TypeError"          \* Path(None)
            /\ extPc' = "handler"
            /\ extEnv' = WbCreate(extEnv)
       ELSE /\ extExc' = extExc
            /\ extPc' = IF Len(extLines) = 0 THEN "key" ELSE "classify"
            /\ extEnv' = LET e == UnlinkReduced(UnlinkNospc(Staged(WbCreate(extEnv))))
                          IN  IF Len(extLines) = 0 THEN AppEnter(e) ELSE e
    /\ UNCHANGED <<extInputs, extRow, extKidx, extWidx, extWriterow, extOut,
                   extLog, extWarn, extResult, lnk, clsVars, selVars, lbVars, fnVars, batVars>>

\* An end of the loop that commits what the accumulator holds.
FlushAfterLines(st) ==
    IF Len(st.times) > 0 /\ st.key # NoKey
    THEN [st EXCEPT !.startstop = DictUpdate(@, st.key, st.times), !.times = <<>>]
    ELSE st

\* The end of "for row, rlist in lines.items()": the print that follows the
\* loop leaves the accumulator and the dictionary as they are.
AfterLines(st) == st

\* for row, rlist in lines.items(): one row through the classifier
ExtClassifyRow ==
    /\ extPc = "classify"
    /\ LET r == ClassifyRow(cls, g, clsStem, extLines[extRow])
       IN  /\ cls' = IF r.st.exc = "none" /\ extRow = Len(extLines)
                     THEN AfterLines([r.st EXCEPT !.ev = "none"])
                     ELSE [r.st EXCEPT !.ev = "none"]
           /\ g' = r.h
           /\ IF r.st.exc # "none"
              THEN /\ extExc' = r.st.exc
                   /\ extPc' = "handler"
                   /\ extRow' = extRow
                   /\ extEnv' = extEnv
              ELSE /\ extExc' = extExc
                   /\ extPc' = IF extRow = Len(extLines) THEN "key" ELSE "classify"
                   /\ extRow' = extRow + 1
                   /\ extEnv' = IF extRow = Len(extLines) THEN AppEnter(extEnv) ELSE extEnv
    /\ UNCHANGED <<extInputs, extKidx, extWidx, extWriterow, extOut,
                   extLog, extWarn, extResult, lnk, clsStem, clsPc, selVars, lbVars, fnVars, batVars>>

\* for key, contacts in startstop.items(): the body up to the heading row of
\* the sheet; past the last key, the return.
ExtKey ==
    /\ extPc = "key"
    /\ IF extKidx > Len(cls.startstop)
       THEN /\ extPc' = "finally"
            /\ extEnv' = AppExit(extEnv)
            /\ UNCHANGED <<extKidx, extWidx, extWriterow, extOut, extExc, extWarn>>
       ELSE LET key == cls.startstop[extKidx].key
                k == KeyStep(extLinks[key.aoi])
            IN  CASE k.act = "continue" ->
                       /\ extWarn' = extWarn \cup {key}
                       /\ extKidx' = extKidx + 1
                       /\ extPc' = "key"
                       /\ UNCHANGED <<extWidx, extWriterow, extOut, extExc, extEnv>>
                  [] k.act = "raise" ->
                       /\ extExc' = k.exc
                       /\ extPc' = "handler"
                       /\ extEnv' = AppExitOnRaise(extEnv)
                       /\ UNCHANGED <<extKidx, extWidx, extWriterow, extOut, extWarn>>
                  [] OTHER ->
                       /\ extOut' = Append(extOut, OutRow(key.aoi, 0, "heading", 0))
                       /\ extWriterow' = 0
                       /\ extWidx' = 1
                       /\ extPc' = "window"
                       /\ extEnv' = WbWrite(extEnv)
                       /\ UNCHANGED <<extKidx, extExc, extWarn>>
    /\ UNCHANGED <<extInputs, extRow, extLog, extResult, lnk, clsVars, selVars, lbVars, fnVars, batVars>>

\* for times in contacts: one window; past the last one, freeze_panes and the next key.
ExtWindow ==
    /\ extPc = "window"
    /\ LET e == cls.startstop[extKidx]
       IN  IF extWidx > Len(e.contacts)
           THEN /\ extKidx' = extKidx + 1
                /\ extPc' = "key"
                /\ UNCHANGED <<extWidx, extWriterow, extOut, extExc, extEnv>>
           ELSE LET w == WriteWindow(LinkTable(extLinks[e.key.aoi]), e.key.aoi,
                                     extWriterow, e.contacts[extWidx])
                IN  /\ extOut' = extOut \o w.out
                    /\ extWriterow' = w.writerow
                    /\ extKidx' = extKidx
                    /\ IF w.exc # "none"
                       THEN /\ extExc' = w.exc
                            /\ extPc' = "handler"
                            /\ extWidx' = extWidx
                            /\ extEnv' = AppExitOnRaise(WbWrite(extEnv))
                       ELSE /\ extExc' = extExc
                            /\ extPc' = "window"
                            /\ extWidx' = extWidx + 1
                            /\ extEnv' = WbWrite(extEnv)
    /\ UNCHANGED <<extInputs, extRow, extLog, extWarn, extResult, lnk,
                   clsVars, selVars, lbVars, fnVars, batVars>>

\* CLinkReports.extend up to its try block: the statements before it are not guarded.
ExtLinkStart ==
    /\ extPc = "start"
    /\ extClass = "link"
    /\ IF decimate_spaces(extEnv.readable) = "None"
       THEN /\ extExc' = "TypeError"          \* Path(None)
            /\ extResult' = "propagated"
            /\ extPc' = "done"
            /\ extEnv' = extEnv
       ELSE /\ extExc' = extExc
            /\ extResult' = extResult
            /\ extPc' = IF Len(extLines) = 0 THEN "finally" ELSE "linkrow"
            /\ extEnv' = LET e == WbCreate(UnlinkNospc(Staged(extEnv)))
                          IN  IF Len(extLines) = 0 THEN UnlinkReduced(e) ELSE e
    /\ UNCHANGED <<extInputs, extRow, extKidx, extWidx, extWriterow, extOut,
                   extLog, extWarn, lnk, clsVars, selVars, lbVars, fnVars, batVars>>

\* for row, line in enumerate(reader): one row of the link report
ExtLinkRow ==
    /\ extPc = "linkrow"
    /\ LET r == LinkRow(lnk, extRow - 1, extLines[extRow])
       IN  /\ lnk' = r
           /\ IF r.exc # "none"
              THEN /\ extExc' = r.exc
                   /\ extPc' = "handler"
                   /\ extRow' = extRow
                   /\ extEnv' = WbWrite(extEnv)
              ELSE /\ extExc' = extExc
                   /\ extPc' = IF extRow = Len(extLines) THEN "finally" ELSE "linkrow"
                   /\ extRow' = extRow + 1
                   /\ extEnv' = IF extRow = Len(extLines)
                                 THEN UnlinkReduced(WbWrite(extEnv)) ELSE WbWrite(extEnv)
    /\ UNCHANGED <<extInputs, extKidx, extWidx, extWriterow, extOut,
                   extLog, extWarn, extResult, clsVars, selVars, lbVars, fnVars, batVars>>

\* The except clauses of the try block: the first that catches logs the error.
ExtHandle ==
    /\ extPc = "handler"
    /\ LET h == HandlerOf(IF extClass = "contact" THEN ContactHandlers ELSE LinkHandlers,
                          extExc)
       IN  IF h = "uncaught"
           THEN /\ extLog' = extLog
                /\ extPc' = "finally_raise"
           ELSE /\ extLog' = extLog \cup {h}
                /\ extPc' = "finally"
    /\ UNCHANGED <<extInputs, extEnv, extRow, extKidx, extWidx, extWriterow, extOut,
                   extExc, extWarn, extResult, lnk, clsVars, selVars, lbVars, fnVars, batVars>>

\* finally: wb.close(), which writes the workbook file and raises if it cannot.
ExtClose ==
    /\ extPc \in {"finally", "finally_raise"}
    /\ \E ok \in BOOLEAN :
        /\ extEnv' = WbClose(extEnv, extExc, ok)
        /\ extResult' = IF ok /\ extPc = "finally" THEN "returned" ELSE "propagated"
    /\ extPc' = "done"
    /\ UNCHANGED <<extInputs, extRow, extKidx, extWidx, extWriterow, extOut,
                   extExc, extLog, extWarn, lnk, clsVars, selVars, lbVars, fnVars, batVars>>

ExtNext ==
    \/ ExtStart
    \/ ExtClassifyRow
    \/ ExtKey
    \/ ExtWindow
    \/ ExtLinkStart
    \/ ExtLinkRow
    \/ ExtHandle
    \/ ExtClose


(***************************************************************************)
(* SpecLinks: the link reports of a batch file go through                  *)
(* CLinkReports.extend one after the other (do_batch), each registering    *)
(* its keys in lr_inst.links; setlinks() then hands the dictionary to the  *)
(* CContactReports instance.  A report is known by its place in the batch. *)
(***************************************************************************)
LbKeys == {MakeKey(1, a) : a \in 1..MaxAoi}

LbReports ==
    {<<h>> : h \in LinkHeadingRows}
        \cup {<<h, <<Field("badtime", 0), Field("decimal", 6)>> >> : h \in LinkHeadingRows}

LbBatches == UNION {[1..n -> LbReports] : n \in 1..MaxBatch}

\* for row, line in enumerate(reader): the rows of the report from row on
RECURSIVE LinkRowsFrom(_, _, _)
LinkRowsFrom(st, lines, row) ==
    IF row > Len(lines) \/ st.exc # "none"
    THEN st
    ELSE LinkRowsFrom(LinkRow(st, row - 1, lines[row]), lines, row + 1)

\* The keys one call of extend() registers, whether or not it ends in an error.
KeysOf(lines) == LinkRowsFrom(LnkInit, lines, 1).links

\* self.links.update({key: xlfile}) for each of the keys
LinksUpdate(links, keys, xlfile) ==
    [k \in DOMAIN links |-> IF k \in keys THEN xlfile ELSE links[k]]

LbNoLinks == [k \in LbKeys |-> 0]

LbIdle ==
    /\ lbBatch = <<>>
    /\ lbIdx = 1
    /\ lbLinks = LbNoLinks
    /\ crLinks = LbNoLinks
    /\ lbPc = "idle"

LbInit ==
    /\ lbBatch \in LbBatches
    /\ lbIdx = 1
    /\ lbLinks = LbNoLinks
    /\ crLinks = LbNoLinks
    /\ lbPc = "links"

\* lr_inst.do_batch(batchfile): extend() on the next report of the batch
LbExtend ==
    /\ lbPc = "links"
    /\ lbIdx <= Len(lbBatch)
    /\ lbLinks' = LinksUpdate(lbLinks, KeysOf(lbBatch[lbIdx]), lbIdx)
    /\ lbIdx' = lbIdx + 1
    /\ UNCHANGED <<lbBatch, crLinks, lbPc, selVars, clsVars, extVars, batVars, fnVars>>

\* cr_inst.setlinks(lr_inst.links): self.links = lrfiles.copy()
LbSetLinks ==
    /\ lbPc = "links"
    /\ lbIdx > Len(lbBatch)
    /\ crLinks' = lbLinks
    /\ lbPc' = "set"
    /\ UNCHANGED <<lbBatch, lbIdx, lbLinks, selVars, clsVars, extVars, batVars, fnVars>>

LbNext == LbExtend \/ LbSetLinks


(***************************************************************************)
(* SpecCsv: reduce_report.lines_from_csv.  The file is opened with         *)
(* newline='', so list(f) keeps every line with its terminator; the loop   *)
(* over enumerate(lines) binds r to the row number and row to the text.    *)
(* Python values carry their type, because re.sub and the set display      *)
(* raise TypeError on the wrong one.                                       *)
(***************************************************************************)
MaxCsvLines == 2    \* a file has at most MaxCsvLines lines

MaxCsvLen == 2      \* a line has at most MaxCsvLen characters before its terminator

CsvChars == {"a", " ", ","}

\* list(f): up to MaxCsvLines lines, each up to MaxCsvLen characters and its terminator
CsvFiles ==
    LET CsvLines == {b \o <<"\n">> : b \in UNION {[1..n -> CsvChars] : n \in 0..MaxCsvLen}}
    IN  UNION {[1..n -> CsvLines] : n \in 0..MaxCsvLines}

PyInt(n) == [type |-> "int", int |-> n, str |-> <<>>]

PyStr(s) == [type |-> "str", int |-> 0, str |-> s]

\* pattern.sub('', v) for a one-character pattern: TypeError unless v is a string
ReSub(c, v) ==
    IF v.type = "str"
    THEN [exc |-> "none", v |-> PyStr(SelectSeq(v.str, LAMBDA x : x # c))]
    ELSE [exc |-> "TypeError", v |-> v]

RECURSIVE SplitFrom(_, _, _)
SplitFrom(s, i, cur) ==
    IF i > Len(s) THEN <<cur>>
    ELSE IF s[i] = "," THEN <<cur>> \o SplitFrom(s, i + 1, <<>>)
    ELSE SplitFrom(s, i + 1, Append(cur, s[i]))

\* str.split(',')
Split(s) == SplitFrom(s, 1, <<>>)

\* The body of "for r, row in enumerate(lines)": both substitutions are
\* applied to r, the row number; the set display {row, rlist} holds a list,
\* which is unhashable.
CsvBody(data, r, row) ==
    LET s1 == ReSub(" ", PyInt(r))
        s2 == ReSub("\n", s1.v)
    IN  IF s1.exc # "none" THEN [exc |-> s1.exc, data |-> data]
        ELSE IF s2.exc # "none" THEN [exc |-> s2.exc, data |-> data]
        ELSE [exc |-> "TypeError", data |-> data]

RECURSIVE CsvRowsFrom(_, _, _)
CsvRowsFrom(data, lines, r) ==
    IF r >= Len(lines) THEN [exc |-> "none", data |-> data]
    ELSE LET b == CsvBody(data, r, lines[r + 1])
         IN  IF b.exc # "none" THEN b ELSE CsvRowsFrom(b.data, lines, r + 1)

\* The value returned: none is TRUE for None, data is the dictionary, log the
\* handler that logged an error.
lines_from_csv(file) ==
    IF ~file.readable
    THEN [none |-> TRUE, data |-> <<>>, log |-> "OSError"]
    ELSE LET res == CsvRowsFrom(<<>>, file.lines, 0)
         IN  IF res.exc = "none"
             THEN [none |-> FALSE, data |-> res.data, log |-> "none"]
             ELSE [none |-> TRUE, data |-> <<>>, log |-> "Exception"]

CsvIdle ==
    /\ csvfile = [readable |-> TRUE, lines |-> <<>>]
    /\ csvPc = "idle"
    /\ csvRet = [none |-> TRUE, data |-> <<>>, log |-> "none"]

CsvInit ==
    /\ csvfile \in [readable : BOOLEAN, lines : CsvFiles]
    /\ csvPc = "call"
    /\ csvRet = [none |-> TRUE, data |-> <<>>, log |-> "none"]

CsvCall ==
    /\ csvPc = "call"
    /\ csvRet' = lines_from_csv(csvfile)
    /\ csvPc' = "done"
    /\ UNCHANGED <<csvfile, jobVars, msVars, selVars, clsVars, extVars, batVars, lbVars>>

(***************************************************************************)
(* SpecJobs: the job set-up loop of the gmat_batcher main program.  A path *)
(* is a sequence of tokens: a name, a suffix with its dot, a blank, the    *)
(* prefix "./" or the line terminator.                                     *)
(***************************************************************************)
MaxBatchLines == 3  \* the batch file has at most MaxBatchLines lines

BatchFiles ==
    LET BatchPaths ==
            { <<"a", ".script">>, <<"b", ".script">>, <<"./", "a", ".script">>,
              <<"a", ".txt">>, <<"a", ".script", " ">>, <<" ">>, <<>>, <<".script">> }
    IN  UNION {[1..n -> {q \o <<"\n">> : q \in BatchPaths}] : n \in 0..MaxBatchLines}

\* os.path.normpath, and the normalisation Path() does: the prefix "./" goes
normpath(q) == SelectSeq(q, LAMBDA x : x # "./")

\* PurePath.suffix: the final component from its last dot, unless the dot
\* is the first character of the component
PathSuffix(q) ==
    LET name == normpath(q)
        dots == {i \in 2..Len(name) : name[i] \in {".script", ".txt"}}
    IN  IF dots = {} THEN <<>>
        ELSE SubSeq(name, CHOOSE i \in dots : \A j \in dots : j <= i, Len(name))

\* the loop body without the test of the suffix
JobAcceptedAnySuffix(filename, fs) == normpath(filename) \in fs

\* the tests of the loop body: the suffix, then the existence
JobAccepted(filename, fs) ==
    /\ PathSuffix(filename) = <<".script">>
    /\ normpath(filename) \in fs    \* filepath.exists()

JobsIdle ==
    /\ bfLines = <<>>
    /\ bfExists = {}
    /\ bfIdx = 0
    /\ gmat_args = <<>>

JobsInit ==
    /\ bfLines \in BatchFiles
    /\ bfExists \in SUBSET {<<"a", ".script">>, <<"b", ".script">>, <<"a", ".txt">>}
    /\ bfIdx = 1
    /\ gmat_args = <<>>

\* one pass of "for filename in f"
JobsLine ==
    /\ bfIdx \in 1..Len(bfLines)
    /\ LET filename == ReSub("\n", PyStr(bfLines[bfIdx])).v.str
       IN  gmat_args' = IF JobAccepted(filename, bfExists)
                        THEN Append(gmat_args, normpath(filename))
                        ELSE gmat_args
    /\ bfIdx' = bfIdx + 1
    /\ UNCHANGED <<bfLines, bfExists, csvVars, msVars, selVars, clsVars, extVars, batVars, lbVars>>

(***************************************************************************)
(* SpecCases: fromconfigsheet.modelspec.  The workbook gives the table of  *)
(* the GMAT sheet (row 0 the headings, then one row per configuration),    *)
(* the list of starting epochs [epoch, x, y, z] and the list of            *)
(* inclinations.  A dictionary is a function; copy() gives a new one, so   *)
(* the cases of the list are values.  Two of the resources of              *)
(* modelpov.getvarnames() are kept.  The table has at least one data row:  *)
(* a range of a single row is not read as a list of rows.                  *)
(***************************************************************************)
MaxRows == 2        \* data rows of the configuration table

MaxEpochs == 2      \* rows of the range Starting_Epoch

MaxIncl == 2        \* values of the range Inclinations

getvarnames ==
    [r \in {"ReportFile1.Filename", "EOTV.DryMass"} |->
        IF r = "ReportFile1.Filename" THEN "Configuration" ELSE "Dry Mass"]

MsInputs ==
    LET Headings == { <<"Configuration", "Dry Mass">>, <<"Dry Mass", "Configuration">>,
                      <<"Configuration", "Payload">> }
        Rows == UNION {[1..n -> [1..2 -> 1..2]] : n \in 1..MaxRows}
    IN  { [spectable |-> <<h>> \o rows,
           epochlist |-> [k \in 1..e |-> <<k, 0, k, 1>>],
           inclist |-> [k \in 1..i |-> 10 * k]] :
          h \in Headings, rows \in Rows, e \in 1..MaxEpochs, i \in 1..MaxIncl }

\* "for epoch in epochlist" with "for incl in inclist" inside it: the cases
\* one row adds, in the order they are appended
ElaborateRow(case, epochlist, inclist) ==
    LET RECURSIVE InclLoop(_, _, _)
        InclLoop(cases, epoch_elab, i) ==
            IF i > Len(inclist) THEN cases
            ELSE InclLoop(Append(cases, [epoch_elab EXCEPT !.inc = inclist[i]]),
                          epoch_elab, i + 1)
        RECURSIVE EpochLoop(_, _)
        EpochLoop(cases, e) ==
            IF e > Len(epochlist) THEN cases
            ELSE EpochLoop(
                    InclLoop(cases,
                             [res |-> case, epoch |-> epochlist[e][1],
                              view |-> SubSeq(epochlist[e], 2, 4), inc |-> 0], 1),
                    e + 1)
    IN  EpochLoop(<<>>, 1)

\* modelspec(fname), from the values read: [exc, cases]
modelspec(in) ==
    LET configspec == Tail(in.spectable)
        tablenames == Head(in.spectable)
        \* specindex[name] = col, the last column of that name
        Cols(name) == {c \in 1..Len(tablenames) : tablenames[c] = name}
        \* modelspec[resource]: the column number, or still the heading
        \* when the table has no such heading
        spec == [r \in DOMAIN getvarnames |->
                    IF Cols(getvarnames[r]) # {}
                    THEN PyInt((CHOOSE c \in Cols(getvarnames[r]) :
                                   \A d \in Cols(getvarnames[r]) : d <= c) - 1)
                    ELSE PyStr(getvarnames[r])]
        RECURSIVE RowLoop(_, _)
        RowLoop(cases, row) ==
            IF row >= Len(configspec) THEN [exc |-> "none", cases |-> cases]
            ELSE LET data == configspec[row + 1]
                 IN  \* case[resource] = data[col]: a list index must be an integer
                     IF \E r \in DOMAIN spec : spec[r].type # "int"
                     THEN [exc |-> "TypeError", cases |-> cases]
                     ELSE RowLoop(cases \o ElaborateRow([r \in DOMAIN spec |-> data[spec[r].int + 1]],
                                                        in.epochlist, in.inclist),
                                  row + 1)
        res == RowLoop(<<>>, 0)
    IN  IF res.exc # "none" THEN res
        \* 'Rows processed = %s', row+1: row is unbound when the loop never ran
        ELSE IF configspec = <<>> THEN [exc |-> "UnboundLocalError", cases |-> res.cases]
        ELSE res

MsIdle ==
    /\ msIn = [spectable |-> <<>>, epochlist |-> <<>>, inclist |-> <<>>]
    /\ msPc = "idle"
    /\ msRet = [exc |-> "none", cases |-> <<>>]

MsInit ==
    /\ msIn \in MsInputs
    /\ msPc = "call"
    /\ msRet = [exc |-> "none", cases |-> <<>>]

MsCall ==
    /\ msPc = "call"
    /\ msRet' = modelspec(msIn)
    /\ msPc' = "done"
    /\ UNCHANGED <<msIn, csvVars, jobVars, selVars, clsVars, extVars, batVars, lbVars>>

FnIdle == CsvIdle /\ JobsIdle /\ MsIdle


(***************************************************************************)
(* SpecBatch: gmat_batcher.  The main program makes a pool of nrunp        *)
(* processes and hands it one run_gmat call per script; run_gmat starts    *)
(* GMAT, waits for it with a timeout, and puts status messages on the      *)
(* managed queue; the main program then reads the queue into its log.      *)
(* Two revisions are modelled: "old" (modelcontrol/gmat_batcher.py) and    *)
(* "new" (src/gmatautomation/modelcontrol/gmat_batcher.py).                *)
(***************************************************************************)
RsrvCpus == 2

Behaviours == {"exits", "hangs", "nopopen"}

Msg(t, kind) == [t |-> t, kind |-> kind]

Jobs == 1..Len(bBeh)

\* run_gmat has returned or raised
Finished(t) == bPc[t] \in {"done", "raised"}

\* run_gmat is running in one of the pool's processes
Holding(t) == bPc[t] \in {"communicate", "kill", "drain", "terminate"}

\* cpto is a module global in the old revision; the new one assigns it under
\* __main__, which a spawned pool process does not execute.
CptoBound == bRev = "old" \/ bStart = "fork"

\* The first statement of run_gmat's finally block.
FinallyEntry == IF bRev = "old" THEN "kill" ELSE "drain"

PoolAlive == pPc \notin {"start", "completed"}

BatchIdle ==
    /\ bRev = "none"
    /\ bStart = "none"
    /\ bBeh = <<>>
    /\ nrunp = 0
    /\ bPc = <<>>
    /\ bProc = <<>>
    /\ bTimedOut = <<>>
    /\ task_queue = <<>>
    /\ bPut = {}
    /\ pPc = "idle"
    /\ pSeen = {}
    /\ pLog = <<>>

BatchInit ==
    /\ bRev \in {"old", "new"}
    /\ bStart \in {"fork", "spawn"}
    /\ bBeh \in UNION {[1..n -> Behaviours] : n \in 0..MaxTasks}
    /\ nrunp \in {ncpus - RsrvCpus : ncpus \in 1..(RsrvCpus + MaxPool)}
    /\ bPc = [t \in 1..Len(bBeh) |-> "queued"]
    /\ bProc = [t \in 1..Len(bBeh) |-> "unbound"]
    /\ bTimedOut = [t \in 1..Len(bBeh) |-> FALSE]
    /\ task_queue = <<>>
    /\ bPut = {}
    /\ pPc = "start"
    /\ pSeen = {}
    /\ pLog = <<>>

\* pool = Pool(processes=nrunp, maxtasksperchild=20)
PPool ==
    /\ pPc = "start"
    /\ IF nrunp < 1
       THEN /\ pLog' = Append(pLog, Msg(0, "ValueError"))
            /\ pPc' = "finally"
       ELSE /\ pLog' = pLog
            /\ pPc' = "map"
    /\ UNCHANGED <<bRev, bStart, bBeh, nrunp, bPc, bProc, bTimedOut, task_queue, bPut,
                   pSeen, selVars, lbVars, fnVars, clsVars, extVars>>

\* A free process of the pool takes the next script: run_gmat up to Popen and,
\* if Popen raises, the except clause that catches it.
WPopen(t) ==
    /\ PoolAlive
    /\ bPc[t] = "queued"
    /\ \A s \in 1..(t - 1) : bPc[s] # "queued"
    /\ Cardinality({s \in Jobs : Holding(s)}) < nrunp
    /\ IF bBeh[t] = "nopopen"
       THEN /\ task_queue' = Append(task_queue, Msg(t, "exception"))
            /\ bPut' = bPut \cup {Msg(t, "exception")}
            /\ bPc' = [bPc EXCEPT ![t] = FinallyEntry]
            /\ bProc' = bProc
       ELSE /\ bProc' = [bProc EXCEPT ![t] = "running"]
            /\ bPc' = [bPc EXCEPT ![t] = "communicate"]
            /\ UNCHANGED <<task_queue, bPut>>
    /\ UNCHANGED <<bRev, bStart, bBeh, nrunp, bTimedOut, pPc, pSeen, pLog,
                   selVars, lbVars, fnVars, clsVars, extVars>>

\* GMAT ends by itself.
ProcExit(t) ==
    /\ PoolAlive
    /\ bProc[t] = "running"
    /\ bBeh[t] = "exits"
    /\ bProc' = [bProc EXCEPT ![t] = "exited"]
    /\ UNCHANGED <<bRev, bStart, bBeh, nrunp, bPc, bTimedOut, task_queue, bPut,
                   pPc, pSeen, pLog, selVars, lbVars, fnVars, clsVars, extVars>>

\* (outs, errors) = proc.communicate(timeout=cpto), the q.put that follows or
\* the except clause that catches what it raised.
WCommunicate(t) ==
    /\ PoolAlive
    /\ bPc[t] = "communicate"
    /\ LET kind == IF ~CptoBound THEN "exception"          \* NameError
                   ELSE IF bProc[t] = "exited" THEN "output"
                   ELSE "timeout"                            \* TimeoutExpired
       IN  /\ task_queue' = Append(task_queue, Msg(t, kind))
           /\ bPut' = bPut \cup {Msg(t, kind)}
           /\ bTimedOut' = [bTimedOut EXCEPT ![t] = (kind = "timeout")]
    /\ bPc' = [bPc EXCEPT ![t] = FinallyEntry]
    /\ UNCHANGED <<bRev, bStart, bBeh, nrunp, bProc, pPc, pSeen, pLog,
                   selVars, lbVars, fnVars, clsVars, extVars>>

\* finally, old revision: proc.kill()
WKill(t) ==
    /\ PoolAlive
    /\ bPc[t] = "kill"
    /\ IF bProc[t] = "unbound"
       THEN /\ bPc' = [bPc EXCEPT ![t] = "raised"]          \* UnboundLocalError
            /\ bProc' = bProc
       ELSE /\ bPc' = [bPc EXCEPT ![t] = "drain"]
            /\ bProc' = [bProc EXCEPT ![t] = IF @ = "running" THEN "killed" ELSE @]
    /\ UNCHANGED <<bRev, bStart, bBeh, nrunp, bTimedOut, task_queue, bPut,
                   pPc, pSeen, pLog, selVars, lbVars, fnVars, clsVars, extVars>>

\* finally: (outs, errors) = proc.communicate(), which returns when the
\* subprocess has ended, and the q.put after it.
WDrain(t) ==
    /\ PoolAlive
    /\ bPc[t] = "drain"
    /\ bProc[t] # "running"
    /\ IF bProc[t] = "unbound"
       THEN /\ bPc' = [bPc EXCEPT ![t] = "raised"]          \* UnboundLocalError
            /\ UNCHANGED <<task_queue, bPut>>
       ELSE LET kind == IF bRev = "old" THEN "completed" ELSE "terminating"
            IN  /\ task_queue' = Append(task_queue, Msg(t, kind))
                /\ bPut' = bPut \cup {Msg(t, kind)}
                /\ bPc' = [bPc EXCEPT ![t] = IF bRev = "old" THEN "done" ELSE "terminate"]
    /\ UNCHANGED <<bRev, bStart, bBeh, nrunp, bProc, bTimedOut, pPc, pSeen, pLog,
                   selVars, lbVars, fnVars, clsVars, extVars>>

\* finally, new revision: proc.terminate()
WTerminate(t) ==
    /\ PoolAlive
    /\ bPc[t] = "terminate"
    /\ bProc' = [bProc EXCEPT ![t] = IF @ = "running" THEN "killed" ELSE @]
    /\ bPc' = [bPc EXCEPT ![t] = "done"]
    /\ UNCHANGED <<bRev, bStart, bBeh, nrunp, bTimedOut, task_queue, bPut,
                   pPc, pSeen, pLog, selVars, lbVars, fnVars, clsVars, extVars>>

\* new revision: for rs, _ in enumerate(pool.imap_unordered(run_gmat, gmat_args, 1)):
\* the next result; the exception of a call that raised is raised here.
PImapNext ==
    /\ bRev = "new"
    /\ pPc = "map"
    /\ \E t \in Jobs \ pSeen :
        /\ Finished(t)
        /\ IF bPc[t] = "raised"
           THEN /\ pLog' = Append(pLog, Msg(0, "Exception"))
                /\ pPc' = "finally"
                /\ pSeen' = pSeen
           ELSE /\ pSeen' = pSeen \cup {t}
                /\ UNCHANGED <<pLog, pPc>>
    /\ UNCHANGED <<bRev, bStart, bBeh, nrunp, bPc, bProc, bTimedOut, task_queue, bPut,
                   selVars, lbVars, fnVars, clsVars, extVars>>

\* new revision: the loop over the results is over; pool.close()
PPoolClose ==
    /\ bRev = "new"
    /\ pPc = "map"
    /\ pSeen = Jobs
    /\ pPc' = "drain"
    /\ UNCHANGED <<bRev, bStart, bBeh, nrunp, bPc, bProc, bTimedOut, task_queue, bPut,
                   pSeen, pLog, selVars, lbVars, fnVars, clsVars, extVars>>

\* old revision: results = pool.map(run_gmat, gmat_args, chunksize=ninstances),
\* which returns, or raises, once every call is over.
PMap ==
    /\ bRev = "old"
    /\ pPc = "map"
    /\ \A t \in Jobs : Finished(t)
    /\ IF \E t \in Jobs : bPc[t] = "raised"
       THEN /\ pLog' = Append(pLog, Msg(0, "Exception"))
            /\ pPc' = "finally"
       ELSE /\ pLog' = pLog
            /\ pPc' = "drain"
    /\ UNCHANGED <<bRev, bStart, bBeh, nrunp, bPc, bProc, bTimedOut, task_queue, bPut,
                   pSeen, selVars, lbVars, fnVars, clsVars, extVars>>

\* while(True): qout = task_queue.get(cpto), which waits while the queue is
\* empty; logging.info; if task_queue.qsize() < 1: break
PGet ==
    /\ pPc = "drain"
    /\ Len(task_queue) > 0
    /\ pLog' = Append(pLog, Head(task_queue))
    /\ task_queue' = Tail(task_queue)
    /\ pPc' = IF Len(Tail(task_queue)) < 1 THEN "finally" ELSE "drain"
    /\ UNCHANGED <<bRev, bStart, bBeh, nrunp, bPc, bProc, bTimedOut, bPut,
                   pSeen, selVars, lbVars, fnVars, clsVars, extVars>>

\* finally: logging.info("!!!!!!!!!! GMAT Batch Execution Completed !!!!!!!!!!")
PFinally ==
    /\ pPc = "finally"
    /\ pLog' = Append(pLog, Msg(0, "completed"))
    /\ pPc' = "completed"
    /\ UNCHANGED <<bRev, bStart, bBeh, nrunp, bPc, bProc, bTimedOut, task_queue, bPut,
                   pSeen, selVars, lbVars, fnVars, clsVars, extVars>>

BatchNext ==
    \/ PPool
    \/ \E t \in Jobs : WPopen(t)
    \/ \E t \in Jobs : ProcExit(t)
    \/ \E t \in Jobs : WCommunicate(t)
    \/ \E t \in Jobs : WKill(t)
    \/ \E t \in Jobs : WDrain(t)
    \/ \E t \in Jobs : WTerminate(t)
    \/ PImapNext
    \/ PPoolClose
    \/ PMap
    \/ PGet
    \/ PFinally


(***************************************************************************)
(* C1: for a link table with strictly increasing timestamps and any window *)
(* [start, stop], start = stop included, the selection raises no error and *)
(* the rows row_start..row_stop-1 are exactly the link rows whose          *)
(* timestamp t satisfies start <= t <= stop.                               *)
(***************************************************************************)
RowsInWindow(a, w) ==
    {i \in 0..(Len(a) - 1) : a[i + 1].dt /\ w[1] <= a[i + 1].v /\ a[i + 1].v <= w[2]}

SeqRange(s) == {s[i] : i \in 1..Len(s)}

C1_SelectsExactlyWindowRows ==
    selPc = "done" =>
        /\ selRes.exc = "none"
        /\ SeqRange(selRes.rows) = RowsInWindow(selTable, selWin)


(***************************************************************************)
(* C2: when a key of the time-window map has no entry in self.links, the   *)
(* loop body for that key writes nothing, raises nothing, warns, and goes  *)
(* on with the next key; and when extend() returns without an error every  *)
(* key of the map was either skipped with a warning or given its sheet.    *)
(***************************************************************************)
KeyAt(i) == cls.startstop[i].key

HasRows(aoi, kind) == \E i \in 1..Len(extOut) : extOut[i].aoi = aoi /\ extOut[i].kind = kind

C2_MissingLinkKeySkipped ==
    /\ [](extResult = "returned" /\ extExc = "none" /\ extClass = "contact" =>
            \A i \in 1..Len(cls.startstop) :
                KeyAt(i) \in extWarn \/ HasRows(KeyAt(i).aoi, "heading"))
    /\ [][(/\ extPc = "key"
           /\ extKidx <= Len(cls.startstop)
           /\ extLinks[KeyAt(extKidx).aoi] = "absent")
          => (/\ extPc' = "key"
              /\ extKidx' = extKidx + 1
              /\ extExc' = "none"
              /\ extOut' = extOut
              /\ KeyAt(extKidx) \in extWarn')]_vars

\* extend() returned after skipping a key without link workbook and writing
\* the link rows of a key that follows it.
C2_Witness ==
    /\ extResult = "returned"
    /\ extExc = "none"
    /\ \E i \in 1..Len(cls.startstop) : \E j \in (i + 1)..Len(cls.startstop) :
        /\ extLinks[KeyAt(i).aoi] = "absent"
        /\ KeyAt(i) \in extWarn
        /\ HasRows(KeyAt(j).aoi, "data")

(***************************************************************************)
(* C3: whenever the satellite identifier in the file name differs from the *)
(* one in the 'Target:' field, extend() ends with the error caught and     *)
(* logged, without any row written and without an exception for the        *)
(* caller.  The identifier of a name is its text from 'sat' on, without    *)
(* regard to case, with the number 1 when no number follows.               *)
(***************************************************************************)
SatId(s) ==
    LET m == RegeSatSearch(s)
        t == [i \in 1..(Len(s) - m + 1) |-> LowerCase(s[m + i - 1])]
    IN  IF m = 0 THEN <<>> ELSE IF Len(t) = 3 THEN Append(t, "1") ELSE t

TargetRead == Len(extLines) > 0 /\ extLines[1][1].k = "target"

C3_SatIdMismatchRejected ==
    (/\ extClass = "contact"
     /\ extPc = "done"
     /\ extEnv.writable
     /\ TargetRead
     /\ SatId(clsStem) # SatId(SatNames[extLines[1][1].v]))
    => (/\ extResult = "returned"
        /\ extLog # {}
        /\ extOut = <<>>)

(***************************************************************************)
(* C4: for any content of a readable input file, neither extend() lets an  *)
(* exception reach its caller: every error raised while classifying,       *)
(* correlating or writing is caught by one of the except clauses and       *)
(* logged.                                                                 *)
(***************************************************************************)
C4_NoExceptionLeavesExtend ==
    extEnv.readable =>
        /\ extResult # "propagated"
        /\ extResult = "returned" /\ extExc # "none" => extLog # {}

(***************************************************************************)
(* C5: when the link workbook of one key cannot be opened or is malformed, *)
(* only that key is skipped: once extend() is over, every key whose link   *)
(* workbook is sound has its link rows written (the report classified      *)
(* without error, every window lying inside the link table).               *)
(***************************************************************************)
InsideTable(times) ==
    /\ bisect_left(LinkTable("ok"), TimeCell(times[1])).exc = "none"
    /\ bisect_right(LinkTable("ok"), TimeCell(times[2])).exc = "none"

C5_BadLinkWorkbookSkipsOnlyItsKey ==
    (/\ extClass = "contact"
     /\ extPc = "done"
     /\ extEnv.writable
     /\ cls.exc = "none"
     /\ \A i \in 1..Len(cls.startstop) : \A w \in 1..Len(cls.startstop[i].contacts) :
            InsideTable(cls.startstop[i].contacts[w]))
    => \A i \in 1..Len(cls.startstop) :
            extLinks[KeyAt(i).aoi] = "ok" => HasRows(KeyAt(i).aoi, "data")

(***************************************************************************)
(* C6: when GMAT does not end within the timeout, run_gmat terminates it   *)
(* before it drains its output, also when GMAT would never end by itself:  *)
(* a worker whose wait timed out never waits, at the drain, for a          *)
(* subprocess that is still running and never ends.                        *)
(***************************************************************************)
C6_TimedOutSubprocessTerminatedBeforeDrain ==
    \A t \in Jobs :
        (bTimedOut[t] /\ bPc[t] = "drain" /\ bBeh[t] = "hangs") => bProc[t] = "killed"

(***************************************************************************)
(* C7: when the main program reports completion, every message a worker    *)
(* has put on the queue has been logged exactly once.                      *)
(***************************************************************************)
TimesLogged(m) == Cardinality({i \in 1..Len(pLog) : pLog[i] = m})

C7_EveryMessageLoggedOnce ==
    pPc = "completed" => \A m \in bPut : TimesLogged(m) = 1

(***************************************************************************)
(* C8: a script whose GMAT run timed out does not keep the other scripts   *)
(* from running: while a script waits for a process of the pool, the       *)
(* processes are not all held by timed-out calls that wait for a           *)
(* subprocess which never ends.                                            *)
(***************************************************************************)
StuckOnTimedOut(t) ==
    /\ bTimedOut[t]
    /\ bPc[t] = "drain"
    /\ bProc[t] = "running"
    /\ bBeh[t] = "hangs"

C8_TimedOutTaskLeavesSiblingsRunning ==
    (pPc = "map" /\ \E s \in Jobs : bPc[s] = "queued")
        => Cardinality({t \in Jobs : StuckOnTimedOut(t)}) < nrunp

(***************************************************************************)
(* C9: when 'Number of events' is read and the accumulator holds triples,  *)
(* the time-window map then holds under the current key exactly the        *)
(* triples accumulated since the previous commit, the accumulator is       *)
(* empty, and what was committed is not changed by later clearing or       *)
(* refilling of the accumulator: at every moment the map holds, key by     *)
(* key, the triples that had been appended between the two commits.        *)
(***************************************************************************)
C9_CommitHoldsAccumulated ==
    /\ cls.startstop = g.startstop
    /\ g.just => /\ cls.times = <<>>
                 /\ DictHas(cls.startstop, g.last.key)
                 /\ Len(DictGet(cls.startstop, g.last.key)) = Len(g.last.tags)
                 /\ Len(g.last.tags) > 0

\* A commit was made and the accumulator has been refilled since.
C9_Witness ==
    /\ clsPc = "read"
    /\ DictHas(cls.startstop, cls.key)
    /\ cls.times # <<>>
    /\ DictGet(cls.startstop, cls.key) # cls.times

(***************************************************************************)
(* C10: every window committed under a key asset_id@area_id was read in    *)
(* the section opened by the 'Observer:' marker that set that key; no      *)
(* window is committed under the key of another section.                   *)
(***************************************************************************)
C10_WindowsCommittedUnderOwnSection ==
    g.just => \A i \in 1..Len(g.last.tags) : g.last.tags[i] = g.last.key

(***************************************************************************)
(* C11: within each section the start column and the stop column are the   *)
(* columns of the first and of the second field containing 'UTC' read in   *)
(* that section, and the duration column is bound only after both of them. *)
(***************************************************************************)
C11_TimeColumnsBoundPerSection ==
    /\ \A i \in 1..Len(g.utc) :
            cls.exc = "none" => Len(cls.colutc) >= i /\ cls.colutc[i] = g.utc[i]
    /\ ~g.durEarly

(***************************************************************************)
(* C12: a field matching the timestamp pattern fills the start slot in the *)
(* bound start column and the stop slot in the bound stop column; in any   *)
(* other column it makes classification fail with ValueError and is not    *)
(* recorded in a window.                                                   *)
(***************************************************************************)
C12_TimestampFilledByColumn == ~g.timeOdd

(***************************************************************************)
(* C13: an 'Observer:' field without area token makes classification fail  *)
(* with ValueError: the classifier never goes past such a row, no sheet is *)
(* added and no key recorded for it, nothing is written, and the error is  *)
(* logged by the ValueError clause of extend().                            *)
(***************************************************************************)
NoAreaToken(rlist) == rlist[1] = Field("observer", 0)

StoppedAtNoArea ==
    /\ extClass = "contact"
    /\ extPc \in {"handler", "finally", "done"}
    /\ extRow <= Len(extLines)
    /\ NoAreaToken(extLines[extRow])

C14_CommittedWindowsOrdered ==
    \A i \in 1..Len(cls.startstop) : \A w \in 1..Len(cls.startstop[i].contacts) :
        cls.startstop[i].contacts[w][1] <= cls.startstop[i].contacts[w][2]

(***************************************************************************)
(* C15: over a batch of link reports a key is never given a second file:   *)
(* the dictionary holds for each key the first report of the batch that    *)
(* registered it, and setlinks() hands over the same association.          *)
(***************************************************************************)
Registering(k) == {i \in 1..(lbIdx - 1) : k \in KeysOf(lbBatch[i])}

FirstRegistered(k) ==
    IF Registering(k) = {} THEN 0
    ELSE CHOOSE i \in Registering(k) : \A j \in Registering(k) : i <= j

C15_KeyKeepsItsFirstFile ==
    \A k \in LbKeys :
        /\ lbLinks[k] = FirstRegistered(k)
        /\ lbPc = "set" => crLinks[k] = FirstRegistered(k)

(***************************************************************************)
(* C16: on each sheet the rows are written at the indices 0, 1, 2, ...     *)
(* without gap or repetition: the heading row at 0, then for each window   *)
(* of the key, in order, a 'Start' row with its start timestamp, the link  *)
(* rows of the window in time order, and a 'Stop' row with its stop        *)
(* timestamp and duration; and when extend() returns without error every   *)
(* window of a key whose sheet was written has its 'Start' and its 'Stop'  *)
(* row.                                                                    *)
(***************************************************************************)
ContactsOf(a) ==
    cls.startstop[CHOOSE i \in 1..Len(cls.startstop) : cls.startstop[i].key.aoi = a].contacts

\* How many rows of the kind the sheet of the area holds among the first i written.
KindCount(a, kind, i) ==
    Cardinality({j \in 1..i : extOut[j].aoi = a /\ extOut[j].kind = kind})

RowInOrder(i) ==
    LET r == extOut[i]
        n == KindCount(r.aoi, r.kind, i)
        p == extOut[i - 1]
    IN  IF r.kind = "heading"
        THEN r.row = 0 /\ n = 1 /\ \A j \in 1..(i - 1) : extOut[j].aoi # r.aoi
        ELSE /\ i > 1 /\ p.aoi = r.aoi /\ r.row = p.row + 1
             /\ CASE r.kind = "start" ->
                        /\ p.kind \in {"heading", "stop"}
                        /\ n <= Len(ContactsOf(r.aoi))
                        /\ r.t = ContactsOf(r.aoi)[n][1]
                        /\ KindCount(r.aoi, "stop", i) = n - 1
                  [] r.kind = "data" ->
                        /\ p.kind \in {"start", "data"}
                        /\ p.kind = "data" => p.t < r.t
                        /\ KindCount(r.aoi, "stop", i) = KindCount(r.aoi, "start", i) - 1
                  [] OTHER ->
                        /\ p.kind \in {"start", "data"}
                        /\ n <= Len(ContactsOf(r.aoi))
                        /\ r.t = ContactsOf(r.aoi)[n][2]
                        /\ r.d = ContactsOf(r.aoi)[n][3]
                        /\ KindCount(r.aoi, "start", i) = n

C17_ColumnWidthNeverShrinks ==
    extClass = "link" =>
        \A i \in 1..Len(lnk.wide) : Len(lnk.width) >= i /\ lnk.width[i] >= lnk.wide[i]

(***************************************************************************)
(* C18: the number format CLinkReports.extend gives a decimal field is the *)
(* one its own text asks for: 2 places when its fraction has fewer than 4  *)
(* digits, 4 places otherwise, whatever fields were processed before.      *)
(***************************************************************************)
C18_FormatFromOwnText == extClass = "link" => ~lnk.fmtOdd

(***************************************************************************)
(* C19: when extend() is over, on the success path and on every failure    *)
(* path, neither the space-decimated nor the comma-reduced intermediate    *)
(* file of the report is left on disk.                                     *)
(***************************************************************************)
C19_NoIntermediateFileLeft ==
    extPc = "done" => ~extEnv.nospc /\ ~extEnv.reduced

(***************************************************************************)
(* C20: the Excel session CContactReports.extend acquires is released on   *)
(* every way out of the block that uses it, exceptions included: it is     *)
(* open only while the loop over the keys runs, and never once the         *)
(* handlers, the finally clause or the caller have control.                *)
(***************************************************************************)
C20_ExcelSessionReleased ==
    extClass = "contact" =>
        /\ extEnv.app = "open" <=> extPc \in {"key", "window"}
        /\ extPc = "done" /\ extEnv.app # "none" => extEnv.app = "closed"

\* extend() ended by an error raised inside the block, after rows were
\* written, with the session released.
C20_Witness ==
    /\ extClass = "contact"
    /\ extPc = "done"
    /\ extExc # "none"
    /\ extOut # <<>>
    /\ extEnv.app = "closed"

(***************************************************************************)
(* C21: lines_from_csv returns, for a readable file of n lines, the        *)
(* mapping with exactly the keys 0..n-1 in which key r holds the           *)
(* comma-split fields of line r, spaces and line terminator removed; for   *)
(* the empty file it returns the empty mapping and not None.               *)
(***************************************************************************)
FieldsOf(line) == Split(SelectSeq(line, LAMBDA x : x # " " /\ x # "\n"))

RowMapping(lines) == [r \in 0..(Len(lines) - 1) |-> FieldsOf(lines[r + 1])]

C21_LinesFromCsvMapsRows ==
    (csvPc = "done" /\ csvfile.readable) =>
        /\ ~csvRet.none
        /\ csvRet.data = RowMapping(csvfile.lines)

\* the part of C21 the code keeps: the empty file gives the empty mapping
C21_EmptyFileEmptyMapping ==
    (csvPc = "done" /\ csvfile.readable /\ csvfile.lines = <<>>) =>
        (~csvRet.none /\ csvRet.data = <<>>)

(***************************************************************************)
(* C22: the jobs set up from the batch file are exactly its lines, in file *)
(* order, whose path ends in the suffix '.script' and exists; blank lines, *)
(* lines of blanks and lines with any other suffix give no job, and every  *)
(* accepted line gives exactly one job.                                    *)
(***************************************************************************)
LineText(line) == SelectSeq(line, LAMBDA x : x # "\n")

IsScriptLine(line) ==
    LET q == normpath(LineText(line))
    IN  Len(q) >= 2 /\ q[Len(q)] = ".script" /\ q \in bfExists

RECURSIVE JobsOf(_)
JobsOf(lines) ==
    IF lines = <<>> THEN <<>>
    ELSE (IF IsScriptLine(Head(lines)) THEN <<normpath(LineText(Head(lines)))>> ELSE <<>>)
         \o JobsOf(Tail(lines))

C22_JobsAreTheScriptLines ==
    bfIdx >= 1 => gmat_args = JobsOf(SubSeq(bfLines, 1, bfIdx - 1))

\* a batch of three lines: a line of blanks, an existing file with another
\* suffix and an existing script; the script alone became a job
C22_Witness ==
    /\ bfIdx = 4
    /\ bfLines = << <<" ", "\n">>, <<"a", ".txt", "\n">>, <<"./", "a", ".script", "\n">> >>
    /\ <<"a", ".txt">> \in bfExists
    /\ gmat_args = << <<"a", ".script">> >>

(***************************************************************************)
(* C23: for a table of R data rows, E starting epochs and I inclinations   *)
(* modelspec() returns exactly R x E x I cases, one for every (row, epoch, *)
(* inclination), in that nesting, each with the values of its row under    *)
(* the resources' headings, its epoch and its inclination.                 *)
(***************************************************************************)
HeadingColumn(name) ==
    CHOOSE c \in 1..Len(Head(msIn.spectable)) : Head(msIn.spectable)[c] = name

HeadingsPresent ==
    \A r \in DOMAIN getvarnames :
        \E c \in 1..Len(Head(msIn.spectable)) : Head(msIn.spectable)[c] = getvarnames[r]

CaseAt(k) ==
    LET E == Len(msIn.epochlist)
        I == Len(msIn.inclist)
        row == ((k - 1) \div (E * I)) + 1
        e == (((k - 1) % (E * I)) \div I) + 1
        i == ((k - 1) % I) + 1
    IN  [res |-> [r \in DOMAIN getvarnames |->
                     Tail(msIn.spectable)[row][HeadingColumn(getvarnames[r])]],
         epoch |-> msIn.epochlist[e][1],
         view |-> SubSeq(msIn.epochlist[e], 2, 4),
         inc |-> msIn.inclist[i]]

CasesAreTheProduct ==
    /\ msRet.exc = "none"
    /\ Len(msRet.cases) =
          (Len(msIn.spectable) - 1) * Len(msIn.epochlist) * Len(msIn.inclist)
    /\ \A k \in 1..Len(msRet.cases) : msRet.cases[k] = CaseAt(k)

C23_OneCasePerCombination == msPc = "done" => CasesAreTheProduct

\* what the code keeps of C23: the product, when the table has a column for
\* every resource
C23_ProductWhenHeadingsPresent ==
    (msPc = "done" /\ HeadingsPresent) => CasesAreTheProduct

(***************************************************************************)
(* C24: when the report ends while windows have been accumulated since the *)
(* last 'Number of events' row, those windows are discarded: the           *)
(* dictionary of windows holds for their key nothing but what closed       *)
(* sections of that key gave, and the sheet rows written for the key are   *)
(* those of closed sections only.                                          *)
(***************************************************************************)
RowsOfKind(kind, last) == {i \in 1..last : extLines[i][1].k = kind}

Latest(S) == IF S = {} THEN 0 ELSE CHOOSE i \in S : \A j \in S : j <= i

LastMarker == Latest(RowsOfKind("numevents", Len(extLines)))

\* the data rows read after the last 'Number of events' row
PendingRows == {i \in RowsOfKind("time", Len(extLines)) : i > LastMarker}

\* the area of interest of the section row i belongs to
AoiAt(i) == extLines[Latest(RowsOfKind("observer", i))][1].v

TripleOf(i) == <<extLines[i][1].v, extLines[i][2].v, extLines[i][3].v>>

\* the data rows of the closed sections of area a
ClosedRows(a) == {i \in RowsOfKind("time", LastMarker) : AoiAt(i) = a}

C24_OpenSectionDiscarded ==
    (extClass = "contact" /\ extRow > Len(extLines) /\ PendingRows # {}) =>
        LET a == AoiAt(Len(extLines))
            Closed == {TripleOf(i) : i \in ClosedRows(a)}
        IN  /\ \A e \in 1..Len(cls.startstop) :
                   cls.startstop[e].key.aoi = a =>
                       \A n \in 1..Len(cls.startstop[e].contacts) :
                           cls.startstop[e].contacts[n] \in Closed
            /\ \A j \in 1..Len(extOut) :
                   (extOut[j].aoi = a /\ extOut[j].kind = "start") =>
                       \E t \in Closed : t[1] = extOut[j].t
            /\ \A j \in 1..Len(extOut) :
                   (extOut[j].aoi = a /\ extOut[j].kind = "stop") =>
                       \E t \in Closed : t[2] = extOut[j].t /\ t[3] = extOut[j].d
            /\ KindCount(a, "start", Len(extOut)) <= Cardinality(ClosedRows(a))

\* extend() returned for a report of a closed section and, for another area,
\* an open one with a window: the sheet rows are those of the closed section
C24_Witness ==
    /\ extResult = "returned"
    /\ extExc = "none"
    /\ PendingRows # {}
    /\ LastMarker > 0
    /\ ClosedRows(AoiAt(Len(extLines))) = {}
    /\ Len(cls.times) > 0
    /\ \E j \in 1..Len(extOut) : extOut[j].kind = "stop"
    /\ \A j \in 1..Len(extOut) : extOut[j].aoi # AoiAt(Len(extLines))

(***************************************************************************)
(* C25: the start time, the stop time and the duration of every            *)
(* accumulated triple come from one and the same row of the report: a      *)
(* start time read in an earlier row is never paired with the stop time or *)
(* the duration of a later row.                                            *)
(***************************************************************************)
C25_TripleFromOneRow == ~g.mixed

(***************************************************************************)
(* C26: every formula cell (slant range, azimuth, elevation) written at    *)
(* the zero-based sheet row r refers only to cells of the spreadsheet row  *)
(* r + 1, the row the formula is written on; every link row written has    *)
(* the three formulas, and no other row has one.                           *)
(***************************************************************************)
C26_FormulasReferOwnRow ==
    \A i \in 1..Len(extOut) :
        IF extOut[i].kind = "data"
        THEN /\ Len(extOut[i].forms) = 3
             /\ \A k \in 1..3 : \A c \in extOut[i].forms[k] : c[2] = extOut[i].row + 1
        ELSE extOut[i].forms = <<>>

\* extend() returned with link rows of a second window on a sheet, each
\* with its formulas
C26_Witness ==
    /\ extResult = "returned"
    /\ \E i \in 1..Len(extOut) :
        /\ extOut[i].kind = "data"
        /\ extOut[i].row >= 3
        /\ extOut[i].forms # <<>>
        /\ KindCount(extOut[i].aoi, "stop", i) >= 1

(***************************************************************************)
(* C27: every call of run_gmat that is over has returned normally and has  *)
(* put exactly one closing status message for its script on the queue,     *)
(* also when GMAT could not be started; and no call's exception reaches    *)
(* the main program, which goes on collecting the other results.           *)
(***************************************************************************)
ClosingMessages(t) == {m \in bPut : m.t = t /\ m.kind \in {"completed", "terminating"}}

C27_RunGmatAlwaysReports ==
    /\ \A t \in Jobs :
           Finished(t) => (bPc[t] = "done" /\ Cardinality(ClosingMessages(t)) = 1)
    /\ \A i \in 1..Len(pLog) : pLog[i] # Msg(0, "Exception")

(***************************************************************************)
(* C28: the loop in which the main program reads the queue terminates for  *)
(* every batch, also for a batch without a runnable script, in which no    *)
(* message is ever put: the main program is never at task_queue.get() with *)
(* the queue empty once every call of run_gmat is over, where it would     *)
(* wait for ever instead of logging 'Batch Execution Completed'.           *)
(***************************************************************************)
C28_DrainLoopTerminates ==
    (pPc = "drain" /\ \A t \in Jobs : Finished(t)) => Len(task_queue) > 0

(***************************************************************************)
(* C29: the size asked for the pool, the number of logical CPUs minus the  *)
(* reserved ones, is at least 1 for every machine with one CPU or more, so *)
(* that the pool can be created; and never more GMAT subprocesses are      *)
(* running than that size.                                                 *)
(***************************************************************************)
C29_PoolSizeAtLeastOne ==
    pPc \notin {"idle", "start"} =>
        /\ nrunp >= 1
        /\ \A i \in 1..Len(pLog) : pLog[i] # Msg(0, "ValueError")
        /\ Cardinality({t \in Jobs : bProc[t] = "running"}) <= nrunp

\* the part of C29 the code keeps: the subprocesses that run are never more
\* than the pool has processes
C29_RunningWithinPoolSize ==
    (pPc # "idle" /\ nrunp >= 1) =>
        Cardinality({t \in Jobs : bProc[t] = "running"}) <= nrunp

(***************************************************************************)
(* C30: once extend() of either class has created its output workbook,     *)
(* wb.close() is called exactly once on every way out, the return at the   *)
(* end, the early one and the one after a caught exception, and never      *)
(* before; when extend() returns the workbook is closed, and no cell is    *)
(* written after close() was called.                                       *)
(***************************************************************************)
C30_WorkbookClosedOnce ==
    extEnv.wb # "none" =>
        /\ extEnv.closes = (IF extPc = "done" THEN 1 ELSE 0)
        /\ extResult = "returned" => extEnv.wb = "closed"
        /\ ~extEnv.late

\* extend() returned after an exception was caught and logged, with rows
\* already written, and the workbook was closed by the one call of close()
C30_Witness ==
    /\ extResult = "returned"
    /\ extExc # "none"
    /\ extLog # {}
    /\ extEnv.wb = "closed"
    /\ extEnv.closes = 1
    /\ (Len(extOut) > 0 \/ lnk.key1 # LnkInit.key1)

(***************************************************************************)
(* The specifications.                                                     *)
(***************************************************************************)
SelectInit == SelInit /\ ClsIdle /\ ExtIdle /\ BatchIdle /\ LbIdle /\ FnIdle

SpecSelect == SelectInit /\ [][SelNext]_vars

ClassifyInit == ClsSpecInit /\ SelIdle /\ ExtIdle /\ BatchIdle /\ LbIdle /\ FnIdle

SpecClassify == ClassifyInit /\ [][ClsNext]_vars

Init == ExtInit /\ SelIdle /\ BatchIdle /\ LbIdle /\ FnIdle

Spec == Init /\ [][ExtNext]_vars

BatcherInit == BatchInit /\ SelIdle /\ ClsIdle /\ ExtIdle /\ LbIdle /\ FnIdle

SpecBatch == BatcherInit /\ [][BatchNext]_vars

LinksInit == LbInit /\ SelIdle /\ ClsIdle /\ ExtIdle /\ BatchIdle /\ FnIdle

SpecLinks == LinksInit /\ [][LbNext]_vars

CsvSpecInit == CsvInit /\ JobsIdle /\ MsIdle /\ SelIdle /\ ClsIdle /\ ExtIdle /\ BatchIdle /\ LbIdle

SpecCsv == CsvSpecInit /\ [][CsvCall]_vars

JobsSpecInit == JobsInit /\ CsvIdle /\ MsIdle /\ SelIdle /\ ClsIdle /\ ExtIdle /\ BatchIdle /\ LbIdle

SpecJobs == JobsSpecInit /\ [][JobsLine]_vars

CasesInit == MsInit /\ CsvIdle /\ JobsIdle /\ SelIdle /\ ClsIdle /\ ExtIdle /\ BatchIdle /\ LbIdle

SpecCases == CasesInit /\ [][MsCall]_vars

=============================================================================
